---- MODULE Spec2Model ----
(***************************************************************************)
(* Execution and trigger engine of the automation platform.                *)
(*                                                                         *)
(* Part 1: the Execution Starter (src/lambdas/execution_starter/handler.py)*)
(* One worker process consumes batches of trigger messages from the queue. *)
(* Each message is handled by process_record: load the workflow, create    *)
(* the execution record, resolve secrets through the process-wide cache,   *)
(* mark the record running, call the step orchestrator synchronously and   *)
(* write the terminal record.  The worker takes one step per call of a     *)
(* table, of the secret store or of the orchestrator, and the API and the  *)
(* secret store's writers act in between.  What the code computes between  *)
(* two calls, its readings of the clock included, belongs to the step that *)
(* ends the first of them.                                                 *)
(*                                                                         *)
(* Python values are encoded as follows: an optional value is the empty    *)
(* tuple (None) or a one-element tuple; a dict is a function; a missing    *)
(* workflow item is NoWorkflow.  The calls that the code guards (secret    *)
(* store, step orchestrator, body parsing) may fail.  Of the writes of the *)
(* execution store, the update of the record to running may raise, and the *)
(* except block of process_record then writes failed; create_execution, the*)
(* write of the results and the write of the except block are taken to     *)
(* succeed.                                                                *)
(*                                                                         *)
(* Part 2: the Trigger Reconciler (src/lambdas/api/eventbridge.py).  The   *)
(* schedule registry is a map from rule names to rules; a reconciliation   *)
(* call is the sequence of registry calls its code makes, one registry     *)
(* call per step.                                                          *)
(*                                                                         *)
(* Part 3: the Poll Change-Detector (src/lambdas/poller/handler.py): one   *)
(* step per call of the PollState table, the feed, the Workflows table,    *)
(* the registry, the execution queue and the notification hook.            *)
(***************************************************************************)
EXTENDS Integers, Sequences, FiniteSets, TLC

\* ----------------------------------------------------------------- bounds
MaxSteps == 2        \* longest workflow step list
MaxBatch == 2        \* most messages in one batch
MaxExec  == 2        \* most execution records created in a behaviour
StartTime == 1000    \* clock reading (seconds) when the process starts
MaxInterval == 6     \* largest interval_minutes a poll trigger asks for
MaxPolls == 5        \* most invocations of the poller in a behaviour
MaxParts == 3        \* most segments in the path of a placeholder
MaxWorkflows == 2    \* most workflow ids the API generates in a behaviour

\* -------------------------------------------------------- program constants
SECRETS_CACHE_TTL == 300
MAX_CONSECUTIVE_FAILURES == 4
MAX_SEEN_ITEMS == 500
MAX_FEED_ITEMS == 100

\* ------------------------------------------------------------ value helpers
None == <<>>
Some(x) == <<x>>
Val(o) == o[1]

EmptyMap == [k \in {} |-> ""]
Truthy(m) == DOMAIN m # {}

\* Python truthiness of an optional string (None and "" are falsy).
TruthyStr(o) == o # None /\ Val(o) # ""

\* ------------------------------------------------------------------ domains
WorkflowId(i) == "w" \o ToString(i)
WfIds == {WorkflowId(1)}
StepId(i) == "s" \o ToString(i)
StepIds == {StepId(i) : i \in 1 .. MaxSteps}

RECURSIVE SeqsUpTo(_, _)
SeqsUpTo(S, n) ==
    IF n = 0 THEN {<<>>}
    ELSE LET shorter == SeqsUpTo(S, n - 1)
         IN shorter \cup {Append(s, x) : s \in shorter, x \in S}

\* A step definition of a workflow (step_id and action type).
StepDefs == [step_id : StepIds, type : {"log"}]
\* Step lists: every order of every choice of distinct steps.
StepLists ==
    {l \in SeqsUpTo(StepDefs, MaxSteps) :
        \A i, j \in 1 .. Len(l) : i # j => l[i].step_id # l[j].step_id}

NoWorkflow == [absent |-> TRUE]
Step(i) == [step_id |-> StepId(i), type |-> "log"]
Workflow(enabled, steps) == [enabled |-> enabled, steps |-> steps, name |-> "wf"]
\* The "enabled" attribute may be missing from the stored item (None).
DisabledWorkflow == Workflow(Some(FALSE), << Step(1) >>)
UnflaggedWorkflow == Workflow(None, << Step(2), Step(1) >>)
Workflows ==
    {Workflow(Some(TRUE), l) : l \in StepLists} \cup {DisabledWorkflow, UnflaggedWorkflow}

\* The workflows of the batch-level specification.
FewWorkflows ==
    {NoWorkflow, DisabledWorkflow, UnflaggedWorkflow, Workflow(Some(TRUE), << Step(1) >>)}

\* Clock readings: the ages 1, TTL - 1 and TTL all occur between two of them.
Times == {StartTime + d : d \in {0, 1, SECRETS_CACHE_TTL - 1, SECRETS_CACHE_TTL}}

\* ---------------------------------------------------------------- variables
VARIABLES
    workflows,      \* Workflows table: workflow_id -> item or NoWorkflow
    created,        \* number of workflow ids generated so far
    executions,     \* Executions table: <<workflow_id, execution_id>> -> record
    now,            \* the clock (time.time(), seconds)
    ssm,            \* parameters under SSM_SECRETS_PATH, in listing order
    secrets_cache,  \* _secrets_cache
    secrets_cache_time, \* _secrets_cache_time
    pc,             \* position of the worker
    event,          \* Records of the batch being handled
    idx,            \* index of the record being processed (1-based)
    outcomes,       \* per processed record: "ok" or the exception it raised
    response,       \* what handler returned for the last batch
    workflow,       \* process_record local: the workflow as loaded
    execution_id,   \* process_record local (0 = not generated)
    secrets,        \* process_record local; while resolve_secrets lists, its local
    next_token,     \* resolve_secrets: how many parameters its listing has returned
    timestamp,      \* get_current_timestamp() as read for the write to come (0 = none)
    resolved,       \* how the resolve_secrets call of this record answered
    sfn,            \* the step-orchestrator call of this record: input and result
    generated,      \* number of execution ids generated so far
    rules,          \* schedule registry: rule name -> rule or NoRule
    recon,          \* the last reconciliation call run as a whole, and its result
    procs,          \* concurrent reconciliation calls: position in their registry calls
    round,          \* the registry when the concurrent calls started
    poll_state,     \* PollState table: workflow_id -> item
    queue,          \* messages the poller sent to the execution queue
    notified,       \* notifications the poller posted
    last_poll,      \* the last invocation of the poller: inputs and result
    inflight,       \* overlapping invocations of the poller: what each has read
    interp,         \* a call of interpolate: template, context and result
    environ         \* os.environ of the API and poller functions, as deployed

vars == <<workflows, created, executions, now, ssm, secrets_cache, secrets_cache_time,
          pc, event, idx, outcomes, response, workflow, execution_id, secrets,
          next_token, timestamp, resolved, sfn, generated, rules, recon, procs, round, poll_state,
          queue, notified, last_poll, inflight, interp, environ>>

\* The variables of each component.
starter == <<executions, now, ssm, secrets_cache, secrets_cache_time,
             pc, event, idx, outcomes, response, workflow, execution_id, secrets,
             next_token, timestamp, resolved, sfn, generated>>
scheduling == <<rules, recon, procs, round>>
polling == <<poll_state, queue, notified, last_poll, inflight>>
interpolating == <<interp>>
deployment == <<environ>>

\* ======================================================================
\* Pure functions of the Execution Starter
\* ======================================================================

\* dict.put
Put(f, k, v) == [x \in DOMAIN f \cup {k} |-> IF x = k THEN v ELSE f[x]]

\* dict.get(k, default) and the SET of update_item on an item
Get(d, k, default) == IF k \in DOMAIN d THEN d[k] ELSE default
Merge(item, updates) ==
    [k \in DOMAIN item \cup DOMAIN updates |->
        IF k \in DOMAIN updates THEN updates[k] ELSE item[k]]

\* --- secrets -----------------------------------------------------------
\* A parameter is [Name |-> path segments, Value |-> string].
Param(path, value) == [Name |-> path, Value |-> value]

SsmContents ==
    { <<>>,
      << Param(<<"secrets", "api_key">>, "v1") >>,
      << Param(<<"secrets", "api_key">>, "v2") >>,
      << Param(<<"secrets", "api_key">>, "v1"),
         Param(<<"secrets", "team", "api_key">>, "v3") >> }

\* name = param["Name"].split("/")[-1]
SecretName(param) == param.Name[Len(param.Name)]

\* The loop over the pages: secrets[name] = param["Value"], later ones win.
RECURSIVE LoadSecrets(_, _)
LoadSecrets(params, acc) ==
    IF params = <<>> THEN acc
    ELSE LoadSecrets(Tail(params),
                     Put(acc, SecretName(Head(params)), Head(params).Value))

\* if _secrets_cache and (time.time() - _secrets_cache_time) < SECRETS_CACHE_TTL
CacheValid(cache, cache_time, t) ==
    Truthy(cache) /\ (t - cache_time) < SECRETS_CACHE_TTL

\* One request of the paginator (get_parameters_by_path, lines 304-309): the
\* parameters that follow the `token` already returned, the page cut after n
\* of them, and whether a NextToken comes with it; or an exception.
Page(params, token, n) ==
    LET last == IF token + n <= Len(params) THEN token + n ELSE Len(params)
    IN [params |-> SubSeq(params, token + 1, last), ok |-> TRUE,
        more |-> last < Len(params)]
FetchFailed == [params |-> <<>>, ok |-> FALSE, more |-> FALSE]
\* The service cuts a page where it likes (ten parameters at most, MaxResults
\* not being given).
Pages(params, token) ==
    {Page(params, token, n) :
        n \in 1 .. (IF Len(params) - token > 1 THEN Len(params) - token ELSE 1)}

\* Mutant: a failed fetch serves the stale cache.
Mut_resolve_secrets(cache, cache_time, t, loaded, page) ==
    IF ~page.ok
    THEN [secrets |-> cache, path |-> "failed", cache |-> cache,
          cache_time |-> cache_time]
    ELSE LET listed == LoadSecrets(page.params, loaded)
         IN IF page.more
            THEN [secrets |-> listed, path |-> "listing", cache |-> cache,
                  cache_time |-> cache_time]
            ELSE [secrets |-> listed, path |-> "fetched", cache |-> listed,
                  cache_time |-> t]

\* resolve_secrets past the cache check (lines 302-328), at one page of the
\* listing: `loaded` is the local `secrets` so far.  The secrets, the cache
\* afterwards and the path taken: "listing" (a further page follows),
\* "fetched" (the last page: the cache and its time are set, lines 324-325)
\* or "failed" (the request raised: {} is returned, line 321).
resolve_secrets(cache, cache_time, t, loaded, page) ==
    IF ~page.ok
    THEN [secrets |-> EmptyMap, path |-> "failed", cache |-> cache,
          cache_time |-> cache_time]
    ELSE LET listed == LoadSecrets(page.params, loaded)
         IN IF page.more
            THEN [secrets |-> listed, path |-> "listing", cache |-> cache,
                  cache_time |-> cache_time]
            ELSE [secrets |-> listed, path |-> "fetched", cache |-> listed,
                  cache_time |-> t]

\* --- step orchestrator responses -----------------------------------------
\* The "output" of a response: absent, a string that is not JSON, JSON that
\* is not an object, or an object with context.steps and step_index.
OutAbsent == [kind |-> "absent"]
OutInvalid == [kind |-> "invalid"]
OutNonObject == [kind |-> "nonobject"]

NoIndex == [kind |-> "none"]
IntIndex(i) == [kind |-> "int", val |-> i]
StrIndex == [kind |-> "str"]
StepIndexValues == {NoIndex, StrIndex} \cup {IntIndex(i) : i \in -1 .. MaxSteps}

\* What the orchestrator's final context holds for a step.
StepData(s) == [output |-> Some("out-" \o s), error |-> None]
ContextOf(S) == [s \in S |-> StepData(s)]

OutObject(S, si) == [steps |-> ContextOf(S), kind |-> "object", step_index |-> si]
Outputs ==
    {OutAbsent, OutInvalid, OutNonObject}
    \cup {OutObject(S, si) : S \in SUBSET StepIds, si \in StepIndexValues}

Response(status, output, error, cause) ==
    [output |-> output, error |-> error, status |-> status, cause |-> cause]

\* On success the code never reads step_index, error or cause.
SfnResponses ==
    {Response("SUCCEEDED", o, None, None) :
        o \in {x \in Outputs : x.kind = "object" => x.step_index = NoIndex}}
    \cup {Response("FAILED", o, None, None) : o \in Outputs}
    \cup {Response("FAILED", o, Some("States.TaskFailed"), Some("boom")) : o \in Outputs}
    \cup {Response("FAILED", OutAbsent, None, Some("boom")),
          Response("TIMED_OUT", OutAbsent, Some("States.Timeout"), None)}

\* context_steps as parse_step_results reads it (lines 235-241).
ContextSteps(output) ==
    IF output.kind = "object" THEN output.steps ELSE ContextOf({})

\* failed_step_index as process_record reads it (lines 435-442).
FailedStepIndex(output) ==
    IF output.kind = "object" THEN output.step_index ELSE NoIndex

\* full_error (lines 430-432)
FullError(resp) ==
    LET error_msg == IF resp.error = None THEN "Unknown error" ELSE Val(resp.error)
        cause == IF resp.cause = None THEN "" ELSE Val(resp.cause)
    IN IF cause # "" THEN error_msg \o ": " \o cause ELSE error_msg

\* Mutant: "if failed_step_index:" instead of "is not None" (index 0 is lost).
Mut_StepStatus(i, step_id, context_steps, failed_step_index) ==
    IF failed_step_index.kind = "int" /\ failed_step_index.val # 0
    THEN IF i < failed_step_index.val THEN "success"
         ELSE IF i = failed_step_index.val THEN "failed"
         ELSE "skipped"
    ELSE IF step_id \in DOMAIN context_steps THEN "success"
    ELSE "skipped"

\* Step status (lines 249-259); i is the 0-based index of the step.
StepStatus(i, step_id, context_steps, failed_step_index) ==
    IF failed_step_index.kind = "int"
    THEN IF i < failed_step_index.val THEN "success"
         ELSE IF i = failed_step_index.val THEN "failed"
         ELSE "skipped"
    ELSE IF step_id \in DOMAIN context_steps THEN "success"
    ELSE "skipped"

\* Mutant: without a failing index every step is reported success.
Mut_StepResult(i, step_def, context_steps, failed_step_index, error_message) ==
    LET step_id == step_def.step_id
        present == step_id \in DOMAIN context_steps
    IN [step_id |-> step_id,
        type |-> step_def.type,
        output |-> IF present THEN context_steps[step_id].output ELSE None,
        error |-> IF failed_step_index.kind = "int" /\ i = failed_step_index.val
                  THEN error_message
                  ELSE IF present THEN context_steps[step_id].error ELSE None,
        status |-> IF failed_step_index.kind = "int"
                   THEN StepStatus(i, step_id, context_steps, failed_step_index)
                   ELSE "success"]

\* One entry of the step-results array (lines 244-272).
StepResult(i, step_def, context_steps, failed_step_index, error_message) ==
    LET step_id == step_def.step_id
        present == step_id \in DOMAIN context_steps
    IN [step_id |-> step_id,
        type |-> step_def.type,
        output |-> IF present THEN context_steps[step_id].output ELSE None,
        error |-> IF failed_step_index.kind = "int" /\ i = failed_step_index.val
                  THEN error_message
                  ELSE IF present THEN context_steps[step_id].error ELSE None,
        status |-> StepStatus(i, step_id, context_steps, failed_step_index)]

\* parse_step_results: one entry per workflow step, in workflow order.
parse_step_results(sfn_output, workflow_steps, failed_step_index, error_message) ==
    [n \in 1 .. Len(workflow_steps) |->
        StepResult(n - 1, workflow_steps[n], ContextSteps(sfn_output),
                   failed_step_index, error_message)]

\* The exceptions the response handling lets escape: json of a non-object makes
\* .get fail (AttributeError is not caught at 240 and 441); comparing the loop
\* index with a non-number step_index is a TypeError (line 250).
ParseRaises(sfn_output, workflow_steps, failed_step_index) ==
    \/ sfn_output.kind = "nonobject"
    \/ failed_step_index.kind = "str" /\ workflow_steps # <<>>

\* --- execution records ---------------------------------------------------
Terminal == {"success", "failed"}

\* create_execution (lines 96-111)
NewExecution(workflow_id, id, trigger_type, workflow_name, t) ==
    [steps |-> <<>>, execution_id |-> id,
     error |-> None, status |-> "pending",
     workflow_id |-> workflow_id, trigger_type |-> trigger_type,
     workflow_name |-> workflow_name, started_at |-> t, finished_at |-> None]

\* update_execution_status (lines 134-155): the attributes of the SET
\* expression, written over the item.
update_execution_status(rec, status, error, t) ==
    Merge(rec, [status |-> status]
               @@ (IF status \in Terminal THEN [finished_at |-> Some(t)] ELSE EmptyMap)
               @@ (IF TruthyStr(error) THEN [error |-> error] ELSE EmptyMap))

\* Mutant: the results are written without the finish time.
Mut_update_execution_with_results(rec, status, steps, error, t) ==
    Merge(rec, [steps |-> steps, status |-> status]
               @@ (IF TruthyStr(error) THEN [error |-> error] ELSE EmptyMap))

\* update_execution_with_results (lines 175-196)
update_execution_with_results(rec, status, steps, error, t) ==
    Merge(rec, [steps |-> steps, status |-> status, finished_at |-> Some(t)]
               @@ (IF TruthyStr(error) THEN [error |-> error] ELSE EmptyMap))

\* update_item without a ConditionExpression (lines 150-155, 190-195): the
\* item the SET is applied to is the stored one, or one with the key alone
\* when none is stored.
Item(table, key) ==
    IF key \in DOMAIN table THEN table[key]
    ELSE [execution_id |-> key[2], workflow_id |-> key[1]]

\* --- trigger messages ----------------------------------------------------
Malformed == [kind |-> "malformed"]
\* Identifiers assigned by the trigger sources; the Orchestrator's own
\* generator yields 1, 2, ... and never one of these.
SourceIds == {MaxExec + 10}
Bodies ==
    {Malformed}
    \cup [kind : {"json"}, workflow_id : WfIds, execution_id : {None},
          trigger_type : {None}]
    \cup [kind : {"json"}, workflow_id : WfIds,
          execution_id : {Some(i) : i \in SourceIds}, trigger_type : {Some("cron")}]
Batches == SeqsUpTo(Bodies, MaxBatch) \ {<<>>}

\* Mutant: the enabled flag is not checked.
Mut_Rejected(wf) == wf = NoWorkflow

\* if not workflow / if not workflow.get("enabled", True)  (lines 360-367)
Rejected(wf) ==
    \/ wf = NoWorkflow
    \/ wf.enabled = Some(FALSE)

\* The BatchProcessor's report: the failed messages' identifiers, in order.
RECURSIVE FailedItems(_, _)
FailedItems(outs, n) ==
    IF n > Len(outs) THEN <<>>
    ELSE (IF outs[n] # "ok" THEN <<n>> ELSE <<>>) \o FailedItems(outs, n + 1)

\* process_partial_response: batchItemFailures, or BatchProcessingError when
\* every record of the batch failed.
PartialResponse(outs) ==
    IF outs # <<>> /\ \A n \in 1 .. Len(outs) : outs[n] # "ok"
    THEN [kind |-> "raised", batchItemFailures |-> <<>>]
    ELSE [kind |-> "returned", batchItemFailures |-> FailedItems(outs, 1)]

\* What the step-orchestrator call of process_record came to.
CallRaised(e) == [kind |-> "raised", error |-> e]
CallReturned(r) == [kind |-> "response", resp |-> r]
\* Errors of the call itself (the client call, or json.dumps of its input).
InvokeErrors == {"ThrottlingException"}

\* Lines 408-471 of process_record: from the result of the call to the record
\* written and whether the exception is re-raised.
\* raised: the exception process_record ends with, or None.
Written(rec, raised) == [rec |-> rec, raised |-> raised]

\* Mutant: the exception is re-raised without being recorded.
Mut_ExceptionPath_Unrecorded(rec, text, t) == Written(rec, Some(text))

\* Mutant: the exception is recorded but not re-raised.
Mut_ExceptionPath(rec, text, t) ==
    Written(update_execution_status(rec, "failed", Some(text), t), None)

\* except Exception as e: update_execution_status(..., "failed", error=str(e)); raise
ExceptionPath(rec, text, t) ==
    Written(update_execution_status(rec, "failed", Some(text), t), Some(text))

HandleResult(rec, workflow_steps, call, t) ==
    IF call.kind = "raised" THEN ExceptionPath(rec, call.error, t)
    ELSE LET resp == call.resp
             sfn_output == resp.output
         IN IF resp.status = "SUCCEEDED"
            THEN IF ParseRaises(sfn_output, workflow_steps, NoIndex)
                 THEN ExceptionPath(rec, "AttributeError", t)
                 ELSE Written(update_execution_with_results(rec, "success",
                          parse_step_results(sfn_output, workflow_steps, NoIndex, None),
                          None, t), None)
            ELSE LET full_error == FullError(resp)
                     failed_step_index == FailedStepIndex(sfn_output)
                 IN IF sfn_output.kind = "nonobject"
                    THEN ExceptionPath(rec, "AttributeError", t)
                    ELSE IF ParseRaises(sfn_output, workflow_steps, failed_step_index)
                    THEN ExceptionPath(rec, "TypeError", t)
                    ELSE Written(update_execution_with_results(rec, "failed",
                             parse_step_results(sfn_output, workflow_steps,
                                                failed_step_index, Some(full_error)),
                             Some(full_error), t), None)

\* ======================================================================
\* State machine
\* ======================================================================
NoCall == [called |-> FALSE]
NoResponse == [kind |-> "none", batchItemFailures |-> <<>>]

InitialWorkflow == Workflow(Some(TRUE), << Step(1) >>)

\* The Execution Starter before its first batch.
StarterInit ==
    /\ executions = [k \in {} |-> NoWorkflow]
    /\ now = StartTime
    /\ ssm = << Param(<<"secrets", "api_key">>, "v1") >>
    /\ secrets_cache = EmptyMap
    /\ secrets_cache_time = 0
    /\ pc = "idle"
    /\ event = <<>>
    /\ idx = 0
    /\ outcomes = <<>>
    /\ response = NoResponse
    /\ workflow = NoWorkflow
    /\ execution_id = 0
    /\ secrets = EmptyMap
    /\ next_token = 0
    /\ timestamp = 0
    /\ resolved = "none"
    /\ sfn = NoCall
    /\ generated = 0

\* --- the schedule registry and the poller's tables before any call --------
ENV == "dev"
\* Workflows the API creates, whose rules the reconciler manages.
ApiWfIds == {WorkflowId(i) : i \in 1 .. MaxWorkflows}
RuleWfIds == ApiWfIds

\* get_rule_name / get_poll_rule_name
get_rule_name(workflow_id) == "automations-" \o ENV \o "-" \o workflow_id \o "-schedule"
get_poll_rule_name(workflow_id) == "automations-" \o ENV \o "-" \o workflow_id \o "-poll"
RuleNames == {get_rule_name(w) : w \in RuleWfIds} \cup {get_poll_rule_name(w) : w \in RuleWfIds}

NoRule == [absent |-> TRUE]
NoRules == [n \in RuleNames |-> NoRule]
NoRecon == [fn |-> "none"]
NotReconciled == [error |-> "", call |-> NoRecon, calls |-> <<>>]
Procs == {1, 2}
IdleProc == [error |-> "", call |-> NoRecon, at |-> 0]
NoPoll == [n |-> 0, status |-> "none"]
NotPolling == [busy |-> FALSE]

SchedulingInit ==
    /\ rules = NoRules
    /\ recon = NotReconciled
    /\ procs = [p \in Procs |-> IdleProc]
    /\ round = [open |-> FALSE, start |-> NoRules]

PollingInit ==
    /\ poll_state = [w \in WfIds |-> EmptyMap]
    /\ queue = <<>>
    /\ notified = <<>>
    /\ last_poll = NoPoll
    /\ inflight = [p \in Procs |-> NotPolling]

NotInterpolated == [called |-> FALSE]
InterpolatingInit == interp = NotInterpolated

\* --- the environment of the functions ------------------------------------------
\* POLLER_LAMBDA_ARN of the API function (eventbridge.py 23) and
\* DISCORD_WEBHOOK_URL of the poller (poller/handler.py 42), both read once
\* with "" as default.  The stacks set neither (cdk/stacks/api_stack.py
\* 101-117 sets CRON_HANDLER_LAMBDA_ARN only, triggers_stack.py 160-168 leaves
\* the URL to be set by hand), so a deployment has each of them empty or set.
Environment(arn, url) == [POLLER_LAMBDA_ARN |-> arn, DISCORD_WEBHOOK_URL |-> url]
Deployed == Environment("", "")
PollerArns == {"", "arn:aws:lambda:poller"}
WebhookUrls == {"", "https://discord.example/webhook"}

\* The Execution Starter and the interpolation read neither variable.
Init ==
    /\ environ = Deployed
    /\ workflows = [w \in WfIds |-> InitialWorkflow]
    /\ created = 1
    /\ StarterInit
    /\ SchedulingInit
    /\ PollingInit
    /\ InterpolatingInit

clock == <<now>>
store == <<ssm>>
cache == <<secrets_cache, secrets_cache_time>>
locals == <<workflow, execution_id, secrets, next_token, timestamp>>
batch == <<event, outcomes, response>>

\* handler (lines 481-500): a batch arrives.
ReceiveBatch(records, cap) ==
    /\ pc = "idle"
    /\ generated + Len(records) <= cap
    /\ event' = records
    /\ idx' = 1
    /\ outcomes' = <<>>
    /\ response' = NoResponse
    /\ pc' = "record"
    /\ resolved' = "none"
    /\ sfn' = NoCall
    /\ UNCHANGED <<deployment, created, interpolating, scheduling, polling, workflows, executions, clock, store, cache, locals, generated>>

\* Mutant: the first failure ends the batch.
Mut_RecordFailed(e) ==
    /\ outcomes' = Append(outcomes, e)
    /\ idx' = Len(event) + 1
    /\ pc' = "record"
    /\ workflow' = NoWorkflow
    /\ execution_id' = 0
    /\ secrets' = EmptyMap
    /\ next_token' = 0
    /\ timestamp' = 0

\* The record handler raised: the processor notes the failure and goes on.
RecordFailed(e) ==
    /\ outcomes' = Append(outcomes, e)
    /\ idx' = idx + 1
    /\ pc' = "record"
    /\ workflow' = NoWorkflow
    /\ execution_id' = 0
    /\ secrets' = EmptyMap
    /\ next_token' = 0
    /\ timestamp' = 0

RecordSucceeded ==
    /\ outcomes' = Append(outcomes, "ok")
    /\ idx' = idx + 1
    /\ pc' = "record"
    /\ workflow' = NoWorkflow
    /\ execution_id' = 0
    /\ secrets' = EmptyMap
    /\ next_token' = 0
    /\ timestamp' = 0

\* generate_execution_id(): a fresh identifier.
generate_execution_id == generated + 1

\* Mutant: the identifier of the message is used when it carries one.
Mut_ExecutionIdFor(body) ==
    IF body.execution_id # None THEN Val(body.execution_id) ELSE generate_execution_id

\* The identifier process_record creates the record under (lines 369-371).
ExecutionIdFor(body) == generate_execution_id

\* process_record, lines 346-371: parse the body, get_workflow (the get_item
\* of line 72), check the workflow, generate the identifier; and
\* create_execution up to its put_item: the clock is read at line 96.
StartRecord ==
    /\ pc = "record"
    /\ idx <= Len(event)
    /\ resolved' = "none"
    /\ sfn' = NoCall
    /\ LET body == event[idx] IN
       IF body.kind = "malformed"
       THEN /\ RecordFailed("JSONDecodeError")
            /\ UNCHANGED generated
       ELSE LET wf == workflows[body.workflow_id] IN
            IF Rejected(wf)
            THEN /\ RecordFailed("ValueError")
                 /\ UNCHANGED generated
            ELSE /\ generated' = generated + 1
                 /\ execution_id' = ExecutionIdFor(body)
                 /\ workflow' = wf
                 /\ timestamp' = now
                 /\ pc' = "create"
                 /\ UNCHANGED <<secrets, next_token, idx, outcomes>>
    /\ UNCHANGED <<deployment, created, interpolating, scheduling, polling, workflows, executions, clock, store, cache, event,
                   response>>

\* create_execution (line 373): the put_item of line 113, with the name of
\* the workflow as it was read and the time read before the call.
CreateExecution ==
    /\ pc = "create"
    /\ pc' = "secrets"
    /\ LET body == event[idx]
           trigger_type == IF body.trigger_type = None THEN "manual"
                           ELSE Val(body.trigger_type)
       IN executions' = Put(executions, <<body.workflow_id, execution_id>>,
              NewExecution(body.workflow_id, execution_id, trigger_type, workflow.name,
                           timestamp))
    /\ timestamp' = 0
    /\ UNCHANGED <<deployment, created, interpolating, scheduling, polling, workflows, clock, store, cache, batch, idx,
                   workflow, execution_id, secrets, next_token, resolved, sfn, generated>>

\* secrets = resolve_secrets() (line 383), lines 293-302: a valid cache is
\* returned; otherwise the listing starts with secrets = {}.
ResolveSecrets ==
    /\ pc = "secrets"
    /\ IF CacheValid(secrets_cache, secrets_cache_time, now)
       THEN /\ secrets' = secrets_cache
            /\ resolved' = "cached"
            /\ pc' = "running"
       ELSE /\ secrets' = EmptyMap
            /\ resolved' = "none"
            /\ pc' = "listing"
    /\ next_token' = 0
    /\ UNCHANGED <<deployment, created, interpolating, scheduling, polling, workflows, executions, clock, store, cache, batch, idx,
                   workflow, execution_id, timestamp, sfn, generated>>

\* One request of the listing (the loop of lines 305-314) and, after the
\* last page or an exception, the end of resolve_secrets (lines 316-327).
FetchPage(page) ==
    /\ pc = "listing"
    /\ LET r == resolve_secrets(secrets_cache, secrets_cache_time, now, secrets, page) IN
        /\ secrets' = r.secrets
        /\ secrets_cache' = r.cache
        /\ secrets_cache_time' = r.cache_time
        /\ resolved' = IF r.path = "listing" THEN resolved ELSE r.path
        /\ pc' = IF r.path = "listing" THEN "listing" ELSE "running"
        /\ next_token' = IF page.ok THEN next_token + Len(page.params) ELSE next_token
    /\ UNCHANGED <<deployment, created, interpolating, scheduling, polling, workflows, executions, clock, store, batch, idx,
                   workflow, execution_id, timestamp, sfn, generated>>

Key == <<event[idx].workflow_id, execution_id>>

\* Mutant: the orchestrator is called without the record being marked running.
Mut_MarkRunning(ok) ==
    /\ pc = "running"
    /\ pc' = IF ok THEN "invoke" ELSE "except"
    /\ timestamp' = IF ok THEN timestamp ELSE now
    /\ UNCHANGED <<deployment, created, interpolating, scheduling, polling, workflows, executions, clock, store, cache, batch, idx,
                   workflow, execution_id, secrets, next_token, resolved, sfn, generated>>

\* update_execution_status(workflow_id, execution_id, "running") (line 400),
\* the first statement of the try block: its update_item (line 150) is
\* applied, or it raises and the except block of line 467 is entered with
\* the record as it was: update_execution_status(..., "failed") reads the
\* clock (line 143) and waits for its update_item.
MarkRunning(ok) ==
    /\ pc = "running"
    /\ pc' = IF ok THEN "invoke" ELSE "except"
    /\ executions' =
          IF ok
          THEN Put(executions, Key,
                   update_execution_status(Item(executions, Key), "running", None, now))
          ELSE executions
    /\ timestamp' = IF ok THEN timestamp ELSE now
    /\ UNCHANGED <<deployment, created, interpolating, scheduling, polling, workflows, clock, store, cache, batch, idx,
                   workflow, execution_id, secrets, next_token, resolved, sfn, generated>>

\* The text of the exception update_item raised.
StoreError == "ClientError"

\* The except block (lines 467-471) after the status update of line 400
\* raised: the update_item of update_execution_status(..., "failed",
\* error=str(e)) on the record as it is stored, with the time read before
\* the call; then the exception is re-raised.
HandleException ==
    /\ pc = "except"
    /\ LET done == ExceptionPath(Item(executions, Key), StoreError, timestamp) IN
        /\ executions' = Put(executions, Key, done.rec)
        /\ IF done.raised # None THEN RecordFailed(Val(done.raised))
           ELSE RecordSucceeded
    /\ UNCHANGED <<deployment, created, interpolating, scheduling, polling, workflows, clock, store, cache, event, response, resolved,
                   sfn, generated>>

\* start_sync_execution (line 402) answers or raises, and the code goes on
\* to the write of what it found (lines 408-471): the step results are
\* parsed and the clock is read (line 175, or 143 in the except block) before
\* the update_item is sent.
InvokeStepFunctions(call) ==
    /\ pc = "invoke"
    /\ pc' = "write"
    /\ timestamp' = now
    /\ sfn' = [workflow |-> workflow, secrets |-> secrets, key |-> Key,
               called |-> TRUE, result |-> call]
    /\ UNCHANGED <<deployment, created, interpolating, scheduling, polling, workflows, executions, clock, store, cache, batch, idx,
                   workflow, execution_id, secrets, next_token, resolved, generated>>

\* The update_item of update_execution_with_results (line 191) or, when the
\* call or the handling of its response raised, of the except block's
\* update_execution_status (line 150), on the record as it is stored now;
\* process_record returns or re-raises.
WriteResult ==
    /\ pc = "write"
    /\ LET done == HandleResult(Item(executions, Key), workflow.steps, sfn.result, timestamp) IN
        /\ executions' = Put(executions, Key, done.rec)
        /\ IF done.raised # None THEN RecordFailed(Val(done.raised))
           ELSE RecordSucceeded
    /\ UNCHANGED <<deployment, created, interpolating, scheduling, polling, workflows, clock, store, cache, event, response, resolved,
                   sfn, generated>>

\* process_partial_response returns (or raises) once every record was handled.
HandlerReturn ==
    /\ pc = "record"
    /\ idx > Len(event)
    /\ response' = PartialResponse(outcomes)
    /\ pc' = "idle"
    /\ UNCHANGED <<deployment, created, interpolating, scheduling, polling, workflows, executions, clock, store, cache, event, idx, outcomes,
                   locals, resolved, sfn, generated>>

\* --- environment ---------------------------------------------------------
\* The API layer creates, changes or deletes the workflow.
ApiWrite(w, item) ==
    /\ workflows[w] # item
    /\ workflows' = [workflows EXCEPT ![w] = item]
    /\ UNCHANGED <<deployment, created, interpolating, scheduling, polling, executions, clock, store, cache, pc, batch, idx, locals,
                   resolved, sfn, generated>>

\* Time passes.
Tick(t) ==
    /\ t > now
    /\ now' = t
    /\ UNCHANGED <<deployment, created, interpolating, scheduling, polling, workflows, executions, store, cache, pc, batch, idx, locals,
                   resolved, sfn, generated>>

\* The secrets under the configured path change.
SsmWrite(params) ==
    /\ ssm # params
    /\ ssm' = params
    /\ UNCHANGED <<deployment, created, interpolating, scheduling, polling, workflows, executions, clock, cache, pc, batch, idx, locals,
                   resolved, sfn, generated>>

\* --- specifications ------------------------------------------------------
AllCalls == {CallRaised(e) : e \in InvokeErrors} \cup {CallReturned(r) : r \in SfnResponses}

\* One result of the call for each path through lines 408-471.
PathCalls ==
    { CallRaised("ThrottlingException"),
      CallReturned(Response("SUCCEEDED", OutObject({StepId(1)}, NoIndex), None, None)),
      CallReturned(Response("SUCCEEDED", OutNonObject, None, None)),
      CallReturned(Response("FAILED", OutObject({StepId(1)}, IntIndex(1)),
                            Some("States.TaskFailed"), Some("boom"))),
      CallReturned(Response("FAILED", OutObject({}, StrIndex), None, None)),
      CallReturned(Response("FAILED", OutNonObject, None, None)),
      CallReturned(Response("TIMED_OUT", OutAbsent, Some("States.Timeout"), None)) }

Worker(calls, batches, cap) ==
    \/ \E records \in batches : ReceiveBatch(records, cap)
    \/ StartRecord
    \/ CreateExecution
    \/ ResolveSecrets
    \/ \E page \in Pages(ssm, next_token) \cup {FetchFailed} : FetchPage(page)
    \/ \E ok \in BOOLEAN : MarkRunning(ok)
    \/ HandleException
    \/ \E call \in calls : InvokeStepFunctions(call)
    \/ WriteResult
    \/ HandlerReturn

\* Batches of messages, one result of the orchestrator per path.
Next ==
    \/ Worker(PathCalls, Batches, MaxExec)
    \/ \E w \in WfIds, item \in FewWorkflows : ApiWrite(w, item)

Spec == Init /\ [][Next]_vars

\* One message, every workflow and every result of the orchestrator.
NextRecord ==
    \/ Worker(AllCalls, {<<b>> : b \in Bodies}, 1)
    \/ \E w \in WfIds, item \in Workflows \cup {NoWorkflow} : ApiWrite(w, item)

SpecRecord == Init /\ [][NextRecord]_vars

\* The secrets cache over time: the clock advances and the stored secrets change.
ValidBodies == {b \in Bodies : b.kind = "json" /\ b.execution_id = None}
NextSecrets ==
    \/ Worker({CallReturned(Response("SUCCEEDED", OutAbsent, None, None))},
              SeqsUpTo(ValidBodies, MaxBatch) \ {<<>>}, MaxExec)
    \/ \E t \in Times : Tick(t)
    \/ \E params \in SsmContents : SsmWrite(params)

SpecSecrets == Init /\ [][NextSecrets]_vars

\* ======================================================================
\* Properties of the Execution Starter
\* ======================================================================
\* The record and the outcome of the message whose orchestrator call `sfn` holds.
CalledRecord == executions[sfn.key]
\* The call was made and process_record has written what came of it.
Handled == sfn.called /\ pc # "write"
CalledOutcome == outcomes[Len(outcomes)]
StepIdsOf(steps) == [n \in 1 .. Len(steps) |-> steps[n].step_id]

\* C1 as claimed: the status of every execution record changes only
\* pending -> running, running -> success or running -> failed; a new record
\* starts pending, and a record that is success or failed never changes its
\* status again.
\* Violated: when the update to running raises, the except block writes
\* failed over the record that is still pending.
C1_StatusTransitions ==
    [][\A k \in DOMAIN executions' :
          IF k \in DOMAIN executions
          THEN LET a == executions[k].status
                   b == executions'[k].status
               IN a # b => <<a, b>> \in {<<"pending", "running">>,
                                         <<"running", "success">>,
                                         <<"running", "failed">>}
          ELSE executions'[k].status = "pending"]_vars

\* What holds of the code: the only change of status besides those three is
\* pending -> failed, made by the except block, and a record that is success
\* or failed never changes its status again.
C1_TerminalIsFinal ==
    [][\A k \in DOMAIN executions' :
          IF k \in DOMAIN executions
          THEN LET a == executions[k].status
                   b == executions'[k].status
               IN a # b => /\ a \notin Terminal
                           /\ <<a, b>> = <<"pending", "failed">> => pc = "except"
                           /\ <<a, b>> \in {<<"pending", "running">>,
                                            <<"pending", "failed">>,
                                            <<"running", "success">>,
                                            <<"running", "failed">>}
          ELSE executions'[k].status = "pending"]_vars

\* process_record has ended with the exception of the update to running: the
\* orchestrator was not called and the record, never running, is failed.
C1_PendingToFailed ==
    /\ pc = "record"
    /\ Len(outcomes) > 0
    /\ outcomes[Len(outcomes)] = StoreError
    /\ ~sfn.called
    /\ \E k \in DOMAIN executions :
          /\ executions[k].status = "failed"
          /\ executions[k].error = Some(StoreError)
          /\ executions[k].steps = <<>>

\* C2: a message whose workflow is absent or has enabled = false makes
\* process_record raise; it creates no execution record, resolves no secrets
\* and does not call the step orchestrator.
C2_Rejected ==
    /\ pc = "record"
    /\ idx <= Len(event)
    /\ event[idx].kind = "json"
    /\ LET wf == workflows[event[idx].workflow_id]
       IN IF wf = NoWorkflow THEN TRUE ELSE wf.enabled = Some(FALSE)

C2_RejectedWorkflow ==
    [][(C2_Rejected /\ idx' # idx) =>
          /\ outcomes' = Append(outcomes, "ValueError")
          /\ executions' = executions
          /\ generated' = generated
          /\ resolved' = "none"
          /\ secrets_cache' = secrets_cache
          /\ secrets_cache_time' = secrets_cache_time
          /\ sfn' = NoCall
          /\ pc' = "record"]_vars
    /\ [](pc \in {"create", "secrets", "listing", "running", "invoke", "write", "except"} =>
            /\ workflow # NoWorkflow
            /\ workflow.enabled # Some(FALSE))

\* A message for a disabled workflow was failed and no record exists.
C2_Witness ==
    /\ pc = "record"
    /\ idx = 2
    /\ event[1].kind = "json"
    /\ outcomes = <<"ValueError">>
    /\ workflows[event[1].workflow_id] # NoWorkflow
    /\ workflows[event[1].workflow_id].enabled = Some(FALSE)
    /\ DOMAIN executions = {}
    /\ sfn = NoCall

\* The workflow was disabled after get_workflow had returned it enabled: the
\* record is created all the same (the claim is about the workflow as read).
C2_DisabledAfterRead ==
    /\ pc = "secrets"
    /\ workflow.enabled = Some(TRUE)
    /\ workflows[event[idx].workflow_id] = DisabledWorkflow
    /\ Key \in DOMAIN executions
    /\ executions[Key].status = "pending"
    /\ executions[Key].started_at = now
    /\ Cardinality(DOMAIN executions) = 1

\* The three cases of C3: the call raised, or it returned a response whose
\* output, if any, is an object with a numeric or absent step_index.
C3_Cases ==
    /\ Handled
    /\ sfn.result.kind = "response" =>
          /\ sfn.result.resp.output.kind # "nonobject"
          /\ sfn.result.resp.output.kind = "object" =>
                sfn.result.resp.output.step_index.kind # "str"

\* C3 as claimed: every record written in a terminal status (success, reported
\* failure, hard invocation exception) has one step result per step of the
\* loaded workflow, in order.
\* Violated: on a hard invocation exception the except block writes the
\* status alone, and the record keeps the empty array it was created with.
C3_Original ==
    C3_Cases =>
        /\ CalledRecord.status \in Terminal
        /\ StepIdsOf(CalledRecord.steps) = StepIdsOf(sfn.workflow.steps)

\* What the code does: a record written in a terminal status from a response
\* that process_record handled without raising has exactly one step result
\* per step of the workflow as loaded, in the workflow's order; a record
\* marked failed on the exception path keeps the empty array it was created
\* with.
C3_StepResultsShape ==
    Handled =>
        /\ CalledRecord.status \in Terminal
        /\ CalledOutcome = "ok" =>
               StepIdsOf(CalledRecord.steps) = StepIdsOf(sfn.workflow.steps)
        /\ CalledOutcome # "ok" =>
               CalledRecord.steps = <<>> /\ CalledRecord.status = "failed"

\* The orchestrator reported one entry for a two-step workflow loaded in the
\* order s2, s1, and the stored workflow has changed since it was loaded.
C3_Witness ==
    /\ Handled
    /\ CalledOutcome = "ok"
    /\ sfn.result.kind = "response"
    /\ sfn.result.resp.output.kind = "object"
    /\ DOMAIN sfn.result.resp.output.steps = {StepId(1)}
    /\ StepIdsOf(sfn.workflow.steps) = <<StepId(2), StepId(1)>>
    /\ Len(CalledRecord.steps) = 2
    /\ workflows[sfn.key[1]] # sfn.workflow

\* C4: when the call of the step orchestrator raises, the record is written
\* failed with the error's text and a finish time, and process_record ends
\* with that exception.
C4_HardFailure ==
    (Handled /\ sfn.result.kind = "raised") =>
        /\ CalledRecord.status = "failed"
        /\ CalledRecord.error = Some(sfn.result.error)
        /\ CalledRecord.finished_at # None
        /\ CalledOutcome = sfn.result.error

C4_Witness ==
    /\ Handled
    /\ sfn.result.kind = "raised"
    /\ CalledRecord.status = "failed"
    /\ CalledRecord.error = Some("ThrottlingException")
    /\ CalledOutcome = "ThrottlingException"

\* The error text "error: cause", or the error alone without a cause; an
\* absent error reads "Unknown error".
C5_Combined(resp) ==
    LET e == IF resp.error = None THEN "Unknown error" ELSE Val(resp.error)
    IN IF resp.cause = None THEN e ELSE e \o ": " \o Val(resp.cause)

C5_Reported ==
    /\ Handled
    /\ sfn.result.kind = "response"
    /\ sfn.result.resp.status # "SUCCEEDED"
    /\ sfn.result.resp.output.kind = "object"
    /\ sfn.result.resp.output.step_index.kind = "int"

\* C5: a failed run reported with failing step index i is recorded with the
\* steps before i success, step i failed with the combined error, the steps
\* after i skipped, and the record failed with the same combined error.
C5_FailedClassification ==
    C5_Reported =>
        LET i == sfn.result.resp.output.step_index.val
            combined == C5_Combined(sfn.result.resp)
            steps == CalledRecord.steps
        IN /\ CalledRecord.status = "failed"
           /\ CalledRecord.error = Some(combined)
           /\ Len(steps) = Len(sfn.workflow.steps)
           /\ \A n \in 1 .. Len(steps) :
                 /\ n - 1 < i => steps[n].status = "success"
                 /\ n - 1 = i => steps[n].status = "failed" /\ steps[n].error = Some(combined)
                 /\ n - 1 > i => steps[n].status = "skipped"

\* Index 0 of two steps: the first step failed with "error: cause", the second skipped.
C5_Witness ==
    /\ C5_Reported
    /\ sfn.result.resp.output.step_index.val = 0
    /\ Len(CalledRecord.steps) = 2
    /\ CalledRecord.steps[1].status = "failed"
    /\ CalledRecord.steps[1].error = Some("States.TaskFailed: boom")
    /\ CalledRecord.steps[2].status = "skipped"

\* C6 as claimed: after a successful run whose output is a context object, the
\* record is success and every step result is success, whatever steps the
\* context holds.
C6_AllStepsSuccess ==
    (/\ Handled
     /\ sfn.result.kind = "response"
     /\ sfn.result.resp.status = "SUCCEEDED"
     /\ sfn.result.resp.output.kind = "object") =>
        /\ CalledRecord.status = "success"
        /\ \A n \in 1 .. Len(CalledRecord.steps) :
              CalledRecord.steps[n].status = "success"

\* C7 as claimed: a message that carries an execution_id gets its record under
\* that identifier; an identifier is generated only for a message without one.
C7_UsesMessageId ==
    (pc \in {"secrets", "listing", "running", "invoke", "write", "except"}
        /\ event[idx].execution_id # None) =>
        /\ execution_id = Val(event[idx].execution_id)
        /\ <<event[idx].workflow_id, Val(event[idx].execution_id)>> \in DOMAIN executions

\* C8 as claimed: once a fetch has succeeded (the refresh time is set), a
\* resolve_secrets call at age < 300 s returns the cached map without calling
\* the store, whatever the map holds; at age >= 300 s a successful call
\* replaces the cached map and the refresh time.
C8_CacheWithinTtl ==
    [][/\ (pc = "secrets" /\ pc' # "secrets" /\ secrets_cache_time # 0) =>
             IF now - secrets_cache_time < SECRETS_CACHE_TTL
             THEN /\ pc' = "running"
                  /\ resolved' = "cached"
                  /\ secrets' = secrets_cache
                  /\ secrets_cache' = secrets_cache
                  /\ secrets_cache_time' = secrets_cache_time
             ELSE pc' = "listing"
       /\ (pc = "listing" /\ pc' = "running" /\ resolved' = "fetched") =>
             /\ secrets_cache' = secrets'
             /\ secrets_cache_time' = now]_vars

\* C9: a failed fetch (the request of any page of the listing raises) makes
\* resolve_secrets return the empty map and leave the cache and its refresh
\* time alone; process_record goes on, marks the record
\* running and calls the orchestrator with empty secrets.
C9_FetchFailure ==
    /\ [][(pc = "listing" /\ pc' = "running" /\ resolved' = "failed") =>
             /\ secrets' = EmptyMap
             /\ secrets_cache' = secrets_cache
             /\ secrets_cache_time' = secrets_cache_time]_vars
    /\ []((pc = "invoke" /\ resolved = "failed") =>
             /\ executions[<<event[idx].workflow_id, execution_id>>].status = "running"
             /\ secrets = EmptyMap)
    /\ []((sfn.called /\ resolved = "failed") => sfn.secrets = EmptyMap)

\* The fetch failed while an expired, non-empty cache was held; the orchestrator
\* was called without secrets and the run succeeded.
C9_Witness ==
    /\ Handled
    /\ resolved = "failed"
    /\ sfn.secrets = EmptyMap
    /\ Truthy(secrets_cache)
    /\ now - secrets_cache_time >= SECRETS_CACHE_TTL
    /\ CalledRecord.status = "success"

\* The request of the second page raised: the parameter of the first page is
\* dropped and the cache stays empty.
C9_SecondPageFailed ==
    /\ pc = "running"
    /\ resolved = "failed"
    /\ next_token = 1
    /\ secrets = EmptyMap
    /\ secrets_cache = EmptyMap

\* Not a property of the code: the map a listing returns is the store's
\* content at its last request.  A write between two pages breaks it (the
\* first page of [api_key=v1, team/api_key=v3] and then an emptied store give
\* {api_key: v1}).
C8_ListingIsSnapshot ==
    [][(pc = "listing" /\ pc' = "running" /\ resolved' = "fetched") =>
          secrets' = LoadSecrets(ssm, EmptyMap)]_vars

\* The messages the queue takes back after the handler ended.
C10_Redelivered ==
    IF response.kind = "raised" THEN 1 .. Len(event)
    ELSE {response.batchItemFailures[n] : n \in 1 .. Len(response.batchItemFailures)}

\* C10: when the handler ends, every message of the batch was processed once,
\* in order; the messages reported failed are exactly those whose processing
\* raised (a malformed body always does), each reported once; and at any time
\* at most one execution is in progress.
C10_BatchIsolation ==
    /\ (pc = "idle" /\ response.kind # "none") =>
          /\ Len(outcomes) = Len(event)
          /\ \A n \in 1 .. Len(event) : event[n].kind = "malformed" => outcomes[n] # "ok"
          /\ C10_Redelivered = {n \in 1 .. Len(event) : outcomes[n] # "ok"}
          /\ response.kind = "returned" =>
                Len(response.batchItemFailures) = Cardinality(C10_Redelivered)
    /\ Cardinality({k \in DOMAIN executions :
                       executions[k].status \in {"pending", "running"}}) <= 1
    /\ Len(outcomes) = (IF pc = "idle" /\ response.kind = "none" THEN 0 ELSE idx - 1)

\* The first message failed, the second was still processed and succeeded;
\* only the first is reported.
C10_Witness ==
    /\ pc = "idle"
    /\ response.kind = "returned"
    /\ Len(event) = 2
    /\ event[1].kind = "malformed"
    /\ outcomes[2] = "ok"
    /\ response.batchItemFailures = <<1>>
    /\ \E k \in DOMAIN executions : executions[k].status = "success"

\* ======================================================================
\* Trigger Reconciler (src/lambdas/api/eventbridge.py)
\* ======================================================================
\* CRON_HANDLER_ARN, POLLER_ARN (eventbridge.py 22-23)
CRON_HANDLER_ARN == "arn:aws:lambda:cron-handler"
POLLER_ARN == environ.POLLER_LAMBDA_ARN

\* The registry before any call, under either setting of POLLER_LAMBDA_ARN.
InitRegistry ==
    /\ environ \in {Environment(arn, "") : arn \in PollerArns}
    /\ workflows = [w \in WfIds |-> InitialWorkflow]
    /\ created = 1
    /\ StarterInit
    /\ SchedulingInit
    /\ PollingInit
    /\ InterpolatingInit

\* --- triggers ------------------------------------------------------------
\* A trigger is None (NoTrigger) or a dict with an optional "type" and a
\* "config" whose keys may be missing (None).
NoTrigger == [absent |-> TRUE]
Config(schedule, url, interval_minutes) ==
    [url |-> url, schedule |-> schedule, interval_minutes |-> interval_minutes]
NoConfig == Config(None, None, None)
Trigger(type, config) == [type |-> type, config |-> config]

Schedules == {"0 9 * * ? *", "0 12 * * ? *"}
Intervals == -1 .. MaxInterval
CronTriggers ==
    {Trigger(Some("cron"), Config(s, None, None)) :
        s \in {None, Some("")} \cup {Some(x) : x \in Schedules}}
PollTriggers ==
    {Trigger(Some("poll"), Config(None, Some("https://feed"), i)) :
        i \in {None} \cup {Some(n) : n \in Intervals}}
    \cup {Trigger(Some("poll"), Config(None, u, None)) : u \in {None, Some("")}}
OtherTriggers ==
    {NoTrigger, Trigger(None, NoConfig), Trigger(Some("manual"), NoConfig),
     Trigger(Some("webhook"), NoConfig)}
Triggers == CronTriggers \cup PollTriggers \cup OtherTriggers

\* (trigger or {}).get("type")
TypeOf(trigger) == IF trigger = NoTrigger THEN None ELSE trigger.type
\* (trigger or {}).get("config", {}).get(key, default)
ConfigOf(trigger) == IF trigger = NoTrigger THEN NoConfig ELSE trigger.config
ScheduleOf(trigger) ==
    IF ConfigOf(trigger).schedule = None THEN "" ELSE Val(ConfigOf(trigger).schedule)
UrlOf(trigger) ==
    IF ConfigOf(trigger).url = None THEN "" ELSE Val(ConfigOf(trigger).url)
IntervalOf(trigger) ==
    IF ConfigOf(trigger).interval_minutes = None THEN 15
    ELSE Val(ConfigOf(trigger).interval_minutes)

\* --- the schedule registry ------------------------------------------------
\* A rule has a schedule expression, a state and a set of targets; every
\* registry call answers with the registry afterwards and an error ("" = none).
NoTarget == [workflow_id |-> "", Id |-> "", Arn |-> ""]
Target(id, arn, workflow_id) == [workflow_id |-> workflow_id, Id |-> id, Arn |-> arn]
Answer(reg, error) == [rules |-> reg, error |-> error]
Exists(reg, name) == reg[name] # NoRule

\* put_rule creates the rule or overwrites its expression and state; the
\* targets of an existing rule stay.
put_rule(reg, name, expression, state) ==
    Answer([reg EXCEPT ![name] =
                [ScheduleExpression |-> expression, State |-> state,
                 Targets |-> IF Exists(reg, name) THEN reg[name].Targets ELSE {}]],
           "")
\* put_targets adds the target, replacing one of the same Id.
put_targets(reg, name, target) ==
    IF ~Exists(reg, name) THEN Answer(reg, "ResourceNotFoundException")
    ELSE Answer([reg EXCEPT ![name].Targets =
                    {t \in @ : t.Id # target.Id} \cup {target}], "")
remove_targets(reg, name, id) ==
    IF ~Exists(reg, name) THEN Answer(reg, "ResourceNotFoundException")
    ELSE Answer([reg EXCEPT ![name].Targets = {t \in @ : t.Id # id}], "")
\* A rule that still has targets cannot be deleted.
delete_rule(reg, name) ==
    IF ~Exists(reg, name) THEN Answer(reg, "ResourceNotFoundException")
    ELSE IF reg[name].Targets # {} THEN Answer(reg, "ValidationException")
    ELSE Answer([reg EXCEPT ![name] = NoRule], "")
enable_rule(reg, name) ==
    IF ~Exists(reg, name) THEN Answer(reg, "ResourceNotFoundException")
    ELSE Answer([reg EXCEPT ![name].State = "ENABLED"], "")
disable_rule(reg, name) ==
    IF ~Exists(reg, name) THEN Answer(reg, "ResourceNotFoundException")
    ELSE Answer([reg EXCEPT ![name].State = "DISABLED"], "")

\* --- the registry calls a reconciliation function makes --------------------
\* One statement of a function: the registry call, whether the function
\* catches ResourceNotFoundException around it, and how many of its following
\* statements the handler skips (the "return" of delete_*_rule).
Call(api, name, expression, target, catches, skip) ==
    [Name |-> name, Target |-> target, ScheduleExpression |-> expression,
     api |-> api, catches |-> catches, skip |-> skip]
Raise(error) == Call("raise", error, "", NoTarget, FALSE, 0)

Exec(reg, c) ==
    CASE c.api = "put_rule" -> put_rule(reg, c.Name, c.ScheduleExpression, "ENABLED")
      [] c.api = "put_targets" -> put_targets(reg, c.Name, c.Target)
      [] c.api = "remove_targets" -> remove_targets(reg, c.Name, c.Target.Id)
      [] c.api = "delete_rule" -> delete_rule(reg, c.Name)
      [] c.api = "enable_rule" -> enable_rule(reg, c.Name)
      [] c.api = "disable_rule" -> disable_rule(reg, c.Name)
      [] c.api = "raise" -> Answer(reg, c.Name)

\* --- the reconciliation functions, as the registry calls they make ----------
\* create_schedule_rule (lines 38-97)
create_schedule_rule(workflow_id, schedule) ==
    IF CRON_HANDLER_ARN = "" THEN << Raise("ValueError") >>
    ELSE << Call("put_rule", get_rule_name(workflow_id), "cron(" \o schedule \o ")",
                 NoTarget, FALSE, 0),
            Call("put_targets", get_rule_name(workflow_id), "",
                 Target("cron-handler", CRON_HANDLER_ARN, workflow_id), FALSE, 0) >>

\* enable_schedule_rule (100-120), disable_schedule_rule (123-144)
enable_schedule_rule(workflow_id) ==
    << Call("enable_rule", get_rule_name(workflow_id), "", NoTarget, TRUE, 0) >>

\* Mutant: disabling removes the rule.
Mut_disable_schedule_rule(workflow_id) ==
    << Call("remove_targets", get_rule_name(workflow_id), "",
            Target("cron-handler", "", ""), TRUE, 1),
       Call("delete_rule", get_rule_name(workflow_id), "", NoTarget, TRUE, 0) >>

disable_schedule_rule(workflow_id) ==
    << Call("disable_rule", get_rule_name(workflow_id), "", NoTarget, TRUE, 0) >>

\* Mutant: a missing rule is not caught when the targets are removed.
Mut_delete_schedule_rule(workflow_id) ==
    << Call("remove_targets", get_rule_name(workflow_id), "",
            Target("cron-handler", "", ""), FALSE, 0),
       Call("delete_rule", get_rule_name(workflow_id), "", NoTarget, TRUE, 0) >>

\* delete_schedule_rule (147-178): not found on remove_targets returns.
delete_schedule_rule(workflow_id) ==
    << Call("remove_targets", get_rule_name(workflow_id), "",
            Target("cron-handler", "", ""), TRUE, 1),
       Call("delete_rule", get_rule_name(workflow_id), "", NoTarget, TRUE, 0) >>

\* max(interval_minutes, 5)
Max(a, b) == IF a >= b THEN a ELSE b
\* f"rate({interval} minutes)" if interval > 1 else "rate(1 minute)"
RateExpression(interval) ==
    IF interval > 1 THEN "rate(" \o ToString(interval) \o " minutes)"
    ELSE "rate(1 minute)"

\* Mutant: the requested interval is used as it is.
Mut_create_poll_rule(workflow_id, interval_minutes) ==
    << Call("put_rule", get_poll_rule_name(workflow_id),
            RateExpression(interval_minutes), NoTarget, FALSE, 0),
       Call("put_targets", get_poll_rule_name(workflow_id), "",
            Target("poller", POLLER_ARN, workflow_id), FALSE, 0) >>

\* create_poll_rule (198-260)
create_poll_rule(workflow_id, interval_minutes) ==
    IF POLLER_ARN = "" THEN << Raise("ValueError") >>
    ELSE LET interval == Max(interval_minutes, 5)
         IN << Call("put_rule", get_poll_rule_name(workflow_id),
                    RateExpression(interval), NoTarget, FALSE, 0),
               Call("put_targets", get_poll_rule_name(workflow_id), "",
                    Target("poller", POLLER_ARN, workflow_id), FALSE, 0) >>

\* enable_poll_rule (263-283), disable_poll_rule (286-307), delete_poll_rule (310-341)
enable_poll_rule(workflow_id) ==
    << Call("enable_rule", get_poll_rule_name(workflow_id), "", NoTarget, TRUE, 0) >>
disable_poll_rule(workflow_id) ==
    << Call("disable_rule", get_poll_rule_name(workflow_id), "", NoTarget, TRUE, 0) >>
delete_poll_rule(workflow_id) ==
    << Call("remove_targets", get_poll_rule_name(workflow_id), "",
            Target("poller", "", ""), TRUE, 1),
       Call("delete_rule", get_poll_rule_name(workflow_id), "", NoTarget, TRUE, 0) >>

\* sync_workflow_rule (349-402): the cron part, then the poll part.
sync_workflow_rule(workflow_id, old_trigger, new_trigger) ==
    LET old_type == TypeOf(old_trigger)
        new_type == TypeOf(new_trigger)
        cron == IF new_type = Some("cron")
                THEN IF ScheduleOf(new_trigger) # ""
                     THEN create_schedule_rule(workflow_id, ScheduleOf(new_trigger))
                     ELSE <<>>
                ELSE IF old_type = Some("cron")
                THEN delete_schedule_rule(workflow_id)
                ELSE <<>>
        poll == IF new_type = Some("poll")
                THEN IF UrlOf(new_trigger) # ""
                     THEN create_poll_rule(workflow_id, IntervalOf(new_trigger))
                     ELSE <<>>
                ELSE IF old_type = Some("poll")
                THEN delete_poll_rule(workflow_id)
                ELSE <<>>
    IN cron \o poll

\* sync_workflow_enabled (405-428)
sync_workflow_enabled(workflow_id, trigger, enabled) ==
    IF TypeOf(trigger) = Some("cron")
    THEN IF enabled THEN enable_schedule_rule(workflow_id)
         ELSE disable_schedule_rule(workflow_id)
    ELSE IF TypeOf(trigger) = Some("poll")
    THEN IF enabled THEN enable_poll_rule(workflow_id)
         ELSE disable_poll_rule(workflow_id)
    ELSE <<>>

\* --- running a reconciliation call -----------------------------------------
\* A call of one of the functions, by name and arguments.
ReconCall(fn, w, old, new, enabled) ==
    [enabled |-> enabled, w |-> w, fn |-> fn, old |-> old, new |-> new]

PlanOf(call) ==
    CASE call.fn = "sync_workflow_rule" -> sync_workflow_rule(call.w, call.old, call.new)
      [] call.fn = "sync_workflow_enabled" ->
            sync_workflow_enabled(call.w, call.new, call.enabled)
      [] call.fn = "delete_schedule_rule" -> delete_schedule_rule(call.w)
      [] call.fn = "delete_poll_rule" -> delete_poll_rule(call.w)

\* The statements left after statement c answered with `error`: all of them
\* when there was none, those after the handler when the error was caught,
\* none when it propagates.
Propagates(c, error) ==
    error # "" /\ ~(c.catches /\ error = "ResourceNotFoundException")
Skipped(c, error) == IF error = "" THEN 0 ELSE c.skip

\* The whole call against registry reg; the registry call number `fault`
\* (0: none) fails with a ClientError of the registry itself.  `made` lists
\* the registry calls made so far.
RECURSIVE Run(_, _, _, _)
Run(reg, plan, fault, made) ==
    IF Len(plan) = 0 THEN [rules |-> reg, error |-> "", calls |-> made]
    ELSE LET c == Head(plan)
             made2 == IF c.api = "raise" THEN made ELSE Append(made, <<c.api, c.Name>>)
             r == IF c.api # "raise" /\ fault = Len(made2)
                  THEN Answer(reg, "ClientError")
                  ELSE Exec(reg, c)
             rest == Tail(plan)
         IN IF Propagates(c, r.error)
            THEN [rules |-> r.rules, error |-> r.error, calls |-> made2]
            ELSE Run(r.rules, SubSeq(rest, Skipped(c, r.error) + 1, Len(rest)),
                     fault, made2)

\* --- a reconciliation call, registry call by registry call ------------------
\* Every put_rule, put_targets, remove_targets, delete_rule, enable_rule and
\* disable_rule is a request to the registry of its own, and the function goes
\* on when the answer is back.  procs[p], while process p is within a call,
\* holds the call, the statement of its plan it is at, the error that ended
\* it and the registry calls made so far.
StageOf(p) == Get(procs[p], "stage", "idle")
Reconciling(call) ==
    [error |-> "", call |-> call, calls |-> <<>>, at |-> 0, stage |-> "registry"]
Returned(p) ==
    procs[p].call # NoRecon
    /\ (procs[p].error # "" \/ procs[p].at >= Len(PlanOf(procs[p].call)))

\* The next statement of process p: a registry call, which the registry
\* answers or fails with a ClientError of its own (fail), or a raise.
RegistryCall(p, fail) ==
    /\ procs[p].call # NoRecon
    /\ ~Returned(p)
    /\ LET c == PlanOf(procs[p].call)[procs[p].at + 1]
           r == IF fail THEN Answer(rules, "ClientError") ELSE Exec(rules, c)
       IN /\ fail => c.api # "raise"
          /\ rules' = r.rules
          /\ procs' = [procs EXCEPT
                 ![p].at = @ + 1 + Skipped(c, r.error),
                 ![p].error = IF Propagates(c, r.error) THEN r.error ELSE "",
                 ![p].calls = IF c.api = "raise" THEN @
                              ELSE Append(@, <<c.api, c.Name>>)]
    /\ UNCHANGED <<deployment, created, interpolating, workflows, starter, recon, round, polling>>

\* One call at a time: the call starts on the registry as it is.
StartCall(call) ==
    /\ \A p \in Procs : procs[p] = IdleProc
    /\ procs' = [procs EXCEPT ![1] = Reconciling(call)]
    /\ round' = [open |-> TRUE, start |-> rules]
    /\ recon' = NotReconciled
    /\ UNCHANGED <<deployment, created, interpolating, workflows, starter, rules, polling>>

\* The call returns or raises to the API handler that made it (which logs
\* what was raised); recon keeps the call, its error, the registry calls it
\* made and the registry it started on.
EndCall ==
    /\ StageOf(2) = "idle"
    /\ Returned(1)
    /\ recon' = [error |-> procs[1].error, call |-> procs[1].call,
                 calls |-> procs[1].calls, before |-> round.start]
    /\ procs' = [procs EXCEPT ![1] = IdleProc]
    /\ round' = [open |-> FALSE, start |-> NoRules]
    /\ UNCHANGED <<deployment, created, interpolating, workflows, starter, rules, polling>>

\* The calls of the API layer (handler.py lines 202, 272, 322-338, 379).
CronTrigger == Trigger(Some("cron"), Config(Some("0 9 * * ? *"), None, None))
PollTrigger == Trigger(Some("poll"), Config(None, Some("https://feed"), Some(5)))
WebhookTrigger == Trigger(Some("webhook"), NoConfig)
OldTriggers == {NoTrigger, CronTrigger, PollTrigger, WebhookTrigger}

SyncRule(w, old, new) == StartCall(ReconCall("sync_workflow_rule", w, old, new, FALSE))
SyncEnabled(w, trigger, enabled) ==
    StartCall(ReconCall("sync_workflow_enabled", w, NoTrigger, trigger, enabled))
DeleteRule(w, fn) == StartCall(ReconCall(fn, w, NoTrigger, NoTrigger, FALSE))

\* Every call for the first workflow, any registry call of which may fail; a
\* few for the second, all answered.
NextReconcile ==
    \/ \E old \in OldTriggers \ {WebhookTrigger}, new \in Triggers : SyncRule("w1", old, new)
    \/ \E t \in OldTriggers \cup {Trigger(None, NoConfig)}, e \in BOOLEAN :
          SyncEnabled("w1", t, e)
    \/ \E fn \in {"delete_schedule_rule", "delete_poll_rule"} : DeleteRule("w1", fn)
    \/ \E old \in {NoTrigger, CronTrigger}, new \in {NoTrigger, CronTrigger} :
          SyncRule("w2", old, new)
    \/ RegistryCall(1, FALSE)
    \/ RegistryCall(1, TRUE) /\ procs[1].call.w = "w1"
    \/ EndCall

SpecReconcile == InitRegistry /\ [][NextReconcile]_vars

\* --- concurrent reconciliation calls ----------------------------------------
\* Two API requests for the same workflow reconcile at the same time: each
\* makes the registry calls of its function in order, and the registry serves
\* the calls of both in any interleaving.
ConcurrentCalls ==
    {ReconCall("sync_workflow_rule", "w1", old, new, FALSE) :
        old \in {NoTrigger, CronTrigger, PollTrigger},
        new \in {NoTrigger, CronTrigger, PollTrigger}}
    \cup {ReconCall("sync_workflow_enabled", "w1", NoTrigger, CronTrigger, e) :
            e \in BOOLEAN}

StartCalls(c1, c2) ==
    /\ ~round.open
    /\ round' = [open |-> TRUE, start |-> rules]
    /\ procs' = [p \in Procs |-> Reconciling(IF p = 1 THEN c1 ELSE c2)]
    /\ UNCHANGED <<deployment, created, interpolating, workflows, starter, rules, recon, polling>>

\* Both calls have returned or raised.
EndCalls ==
    /\ round.open
    /\ \A p \in Procs : Returned(p)
    /\ round' = [open |-> FALSE, start |-> NoRules]
    /\ procs' = [p \in Procs |-> IdleProc]
    /\ UNCHANGED <<deployment, created, interpolating, workflows, starter, rules, recon, polling>>

\* The registry answers every call: what is raised is raised by the
\* interleaving.
NextConcurrent ==
    \/ \E c1 \in ConcurrentCalls, c2 \in ConcurrentCalls : StartCalls(c1, c2)
    \/ \E p \in Procs : RegistryCall(p, FALSE)
    \/ EndCalls

SpecConcurrent == InitRegistry /\ [][NextConcurrent]_vars

\* ======================================================================
\* Properties of the Trigger Reconciler
\* ======================================================================
\* The registry calls the last reconciliation call made on rule `name`.
CallsOn(name) == SelectSeq(recon.calls, LAMBDA x : x[2] = name)
\* The last call was answered by the registry every time (no ClientError).
Answered == recon # NotReconciled /\ recon.error # "ClientError"
CronTarget(w) == Target("cron-handler", CRON_HANDLER_ARN, w)
PollTarget(w) == Target("poller", POLLER_ARN, w)

\* What sync_workflow_rule(w, old, new) has done for one kind, whose rule is
\* `name`, whose required field has the value `required` in new, and whose
\* target is `target`.
C11_Kind(kind, name, required, target) ==
    LET c == recon.call
        on == CallsOn(name)
    IN IF TypeOf(c.new) = Some(kind)
       THEN required # "" =>
                /\ on = << <<"put_rule", name>>, <<"put_targets", name>> >>
                /\ Exists(rules, name)
                /\ rules[name].State = "ENABLED"
                /\ target \in rules[name].Targets
       ELSE IF TypeOf(c.old) = Some(kind)
       THEN /\ ~Exists(rules, name)
            /\ Len(on) >= 1
            /\ \A i \in 1 .. Len(on) : on[i][1] \in {"remove_targets", "delete_rule"}
       ELSE on = <<>>

\* C11: for each kind K of {cron, poll} independently, sync_workflow_rule(w,
\* old, new) upserts w's K rule when new is of kind K with its required field,
\* deletes it when old is of kind K and new is not, and makes no registry call
\* for K when neither is; a cron rule carries the schedule of new.
\* Violated: create_poll_rule raises ValueError before any registry call when
\* POLLER_ARN is empty (eventbridge.py 212-214), and POLLER_LAMBDA_ARN is not
\* among the variables the API function is given (cdk/stacks/api_stack.py
\* 101-117): a new poll trigger gets no rule, after the cron rule of old was
\* deleted.
C11_SyncPerKind ==
    (Answered /\ recon.call.fn = "sync_workflow_rule") =>
        LET c == recon.call IN
        /\ recon.error = ""
        /\ C11_Kind("cron", get_rule_name(c.w), ScheduleOf(c.new), CronTarget(c.w))
        /\ C11_Kind("poll", get_poll_rule_name(c.w), UrlOf(c.new), PollTarget(c.w))
        /\ (TypeOf(c.new) = Some("cron") /\ ScheduleOf(c.new) # "") =>
               rules[get_rule_name(c.w)].ScheduleExpression
                   = "cron(" \o ScheduleOf(c.new) \o ")"

\* What does hold: the statement where the API function has the poller's ARN.
C11_WithPollerArn == POLLER_ARN # "" => C11_SyncPerKind

\* sync_workflow_rule(old=cron, new=poll) has deleted the cron rule and raised
\* without a registry call for the poll rule.
C11_NoPollRule ==
    /\ recon.call.fn = "sync_workflow_rule"
    /\ TypeOf(recon.call.old) = Some("cron")
    /\ recon.call.new = PollTrigger
    /\ recon.error = "ValueError"
    /\ Exists(recon.before, get_rule_name("w1"))
    /\ recon.calls = << <<"remove_targets", get_rule_name("w1")>>,
                        <<"delete_rule", get_rule_name("w1")>> >>
    /\ ~Exists(rules, get_rule_name("w1"))
    /\ ~Exists(rules, get_poll_rule_name("w1"))

\* sync_workflow_rule(old=cron, new=poll) has deleted an existing cron rule and
\* created the poll rule.
C11_Witness ==
    /\ recon.call.fn = "sync_workflow_rule"
    /\ TypeOf(recon.call.old) = Some("cron")
    /\ TypeOf(recon.call.new) = Some("poll")
    /\ recon.error = ""
    /\ recon.calls = << <<"remove_targets", get_rule_name("w1")>>,
                        <<"delete_rule", get_rule_name("w1")>>,
                        <<"put_rule", get_poll_rule_name("w1")>>,
                        <<"put_targets", get_poll_rule_name("w1")>> >>
    /\ ~Exists(rules, get_rule_name("w1"))
    /\ Exists(rules, get_poll_rule_name("w1"))

\* The last call made once more on the registry as it is now.
Again == Run(rules, PlanOf(recon.call), 0, <<>>)

\* C12: sync_workflow_rule is idempotent: the same call made a second time
\* succeeds like the first and leaves the registry as the first left it, with
\* one rule holding exactly one target for the workflow and kind.
\* Violated with C11: without POLLER_LAMBDA_ARN the call with a new poll
\* trigger raises ValueError, the first time and the second.
C12_Idempotent ==
    (Answered /\ recon.call.fn = "sync_workflow_rule") =>
        LET c == recon.call IN
        /\ recon.error = ""
        /\ Again.error = ""
        /\ Again.rules = rules
        /\ (TypeOf(c.new) = Some("cron") /\ ScheduleOf(c.new) # "") =>
               rules[get_rule_name(c.w)].Targets = {CronTarget(c.w)}
        /\ (TypeOf(c.new) = Some("poll") /\ UrlOf(c.new) # "") =>
               rules[get_poll_rule_name(c.w)].Targets = {PollTarget(c.w)}

\* What does hold: the statement where the API function has the poller's ARN,
\* and for a new trigger that is not a poll trigger in any environment.
C12_WithPollerArn == POLLER_ARN # "" => C12_Idempotent
C12_NotPoll ==
    (recon # NotReconciled /\ TypeOf(recon.call.new) # Some("poll")) => C12_Idempotent

\* A new poll trigger, the call raised, and raises again.
C12_RaisesTwice ==
    /\ recon.call.fn = "sync_workflow_rule"
    /\ recon.call.new = PollTrigger
    /\ recon.error = "ValueError"
    /\ Again.error = "ValueError"
    /\ Again.calls = <<>>

\* sync_workflow_rule with a new cron trigger has written the rule, and the
\* second call makes its two registry calls again.
C12_Witness ==
    /\ recon.call.fn = "sync_workflow_rule"
    /\ recon.call.new = CronTrigger
    /\ recon.error = ""
    /\ rules[get_rule_name("w1")] =
           [ScheduleExpression |-> "cron(0 9 * * ? *)", State |-> "ENABLED",
            Targets |-> {CronTarget("w1")}]
    /\ Again.calls = << <<"put_rule", get_rule_name("w1")>>,
                        <<"put_targets", get_rule_name("w1")>> >>

\* The registry after the two calls of this round made one after the other.
Serial(first, second) ==
    Run(Run(round.start, PlanOf(procs[first].call), 0, <<>>).rules,
        PlanOf(procs[second].call), 0, <<>>).rules
BothReturned == round.open /\ \A p \in Procs : Returned(p)

\* No interleaving of the registry calls makes a reconciliation call raise.
C13_NoRaise == BothReturned => \A p \in Procs : procs[p].error = ""
\* Every interleaving ends in a registry that a serial order also produces.
C13_Serializable == BothReturned => rules \in {Serial(1, 2), Serial(2, 1)}

\* C13: concurrent reconciliation calls for the same workflow, their registry
\* calls interleaved arbitrarily, end in a registry state that some serial
\* order of the same calls produces, and no call raises.
C13_Converges == C13_NoRaise /\ C13_Serializable

\* The rule sync_workflow_enabled works on for a trigger ("" for a trigger
\* that is neither cron nor poll).
RuleOfTrigger(w, trigger) ==
    IF TypeOf(trigger) = Some("cron") THEN get_rule_name(w)
    ELSE IF TypeOf(trigger) = Some("poll") THEN get_poll_rule_name(w)
    ELSE ""
FlagOf(enabled) == IF enabled THEN "ENABLED" ELSE "DISABLED"

\* sync_workflow_enabled has ended and the registry answered it.
C14_Ended ==
    /\ recon.call.fn = "sync_workflow_enabled"
    /\ recon.error # "ClientError"

C14_Frame ==
    LET c == recon.call
        before == recon.before
        name == RuleOfTrigger(c.w, c.new)
    IN /\ recon.error = ""
       /\ \A n \in RuleNames \ {name} : rules[n] = before[n]
       /\ IF name = "" THEN recon.calls = <<>>
          ELSE /\ recon.calls = << <<IF c.enabled THEN "enable_rule" ELSE "disable_rule", name>> >>
               /\ Exists(rules, name) = Exists(before, name)
               /\ Exists(before, name) =>
                      rules[name] = [before[name] EXCEPT !.State = FlagOf(c.enabled)]
               \* disable, then enable: an enabled rule is as it was
               /\ (~c.enabled /\ Exists(before, name) /\ before[name].State = "ENABLED") =>
                      Run(rules, sync_workflow_enabled(c.w, c.new, TRUE), 0, <<>>).rules
                          = before

\* C14: sync_workflow_enabled changes nothing in the registry but the state
\* flag of the workflow's rule of its trigger's kind: the rule's existence,
\* expression and targets stay, every other rule is untouched, a manual or
\* webhook trigger makes no registry call, and disable followed by enable
\* gives an enabled rule back as it was.
C14_OnlyFlag == C14_Ended => C14_Frame

\* sync_workflow_enabled(cron, FALSE) has disabled a rule that keeps its
\* expression and target.
C14_Witness ==
    /\ recon.call.fn = "sync_workflow_enabled"
    /\ recon.call.new = CronTrigger
    /\ ~recon.call.enabled
    /\ recon.calls = << <<"disable_rule", get_rule_name("w1")>> >>
    /\ rules[get_rule_name("w1")] =
           [ScheduleExpression |-> "cron(0 12 * * ? *)", State |-> "DISABLED",
            Targets |-> {CronTarget("w1")}]
    /\ Exists(rules, get_poll_rule_name("w1"))
    /\ Exists(rules, get_rule_name("w2"))

\* The call only deletes, enables or disables rules.
DeletesOrFlags(c) ==
    \/ c.fn \in {"delete_schedule_rule", "delete_poll_rule", "sync_workflow_enabled"}
    \/ c.fn = "sync_workflow_rule" /\ TypeOf(c.new) \notin {Some("cron"), Some("poll")}

\* Such a call has ended and the registry answered it.
C15_Ended ==
    /\ recon # NotReconciled
    /\ DeletesOrFlags(recon.call)
    /\ recon.error # "ClientError"

\* C15: deleting, enabling or disabling a cron or poll rule returns normally
\* whatever the registry holds (after any earlier calls, interrupted ones
\* included), and leaves the registry unchanged when the rule does not exist.
C15_MissingRuleTolerated ==
    C15_Ended =>
        /\ recon.error = ""
        /\ (\A i \in 1 .. Len(recon.calls) : ~Exists(recon.before, recon.calls[i][2]))
              => rules = recon.before

\* delete_schedule_rule found no rule: remove_targets answered not found, the
\* function returned, and the rest of the registry is still there.
C15_Witness ==
    /\ recon.call.fn = "delete_schedule_rule"
    /\ recon.error = ""
    /\ recon.calls = << <<"remove_targets", get_rule_name("w1")>> >>
    /\ ~Exists(rules, get_rule_name("w1"))
    /\ Exists(rules, get_poll_rule_name("w1"))
    /\ rules[get_poll_rule_name("w1")].Targets = {}

Live(name) == Exists(rules, name) /\ rules[name].State = "ENABLED"

\* C16: sync_workflow_rule with a new cron trigger without schedule, or a new
\* poll trigger without URL, does not raise and leaves the workflow without a
\* live rule of that kind, whatever rule existed before.
C16_NoLiveRule ==
    (Answered /\ recon.call.fn = "sync_workflow_rule") =>
        LET c == recon.call IN
        /\ (TypeOf(c.new) = Some("cron") /\ ScheduleOf(c.new) = "") =>
               recon.error = "" /\ ~Live(get_rule_name(c.w))
        /\ (TypeOf(c.new) = Some("poll") /\ UrlOf(c.new) = "") =>
               recon.error = "" /\ ~Live(get_poll_rule_name(c.w))

\* The expression of a rate of n minutes, n at least 2.
RateOf(n) == "rate(" \o ToString(n) \o " minutes)"

\* C17: whatever interval_minutes is requested (below 5, zero and negative
\* included; 15 when none is given), the poll rule written has a rate of at
\* least 5 minutes, and the requested rate when that is 5 or more.
C17_MinimumInterval ==
    (/\ Answered
     /\ recon.call.fn = "sync_workflow_rule"
     /\ TypeOf(recon.call.new) = Some("poll")
     /\ UrlOf(recon.call.new) # ""
     /\ \E i \in 1 .. Len(recon.calls) :
            recon.calls[i] = <<"put_rule", get_poll_rule_name(recon.call.w)>>) =>
        LET requested == IntervalOf(recon.call.new)
            written == rules[get_poll_rule_name(recon.call.w)].ScheduleExpression
        IN /\ \E n \in 5 .. MaxInterval + 15 : written = RateOf(n)
           /\ requested >= 5 => written = RateOf(requested)
           /\ requested < 5 => written = RateOf(5)

\* A poll rule was asked for every 0 minutes and written with rate 5.
C17_Witness ==
    /\ recon.call.fn = "sync_workflow_rule"
    /\ TypeOf(recon.call.new) = Some("poll")
    /\ recon.call.new.config.interval_minutes = Some(0)
    /\ recon.error = ""
    /\ rules[get_poll_rule_name("w1")].ScheduleExpression = "rate(5 minutes)"

\* ======================================================================
\* Poll Change-Detector (src/lambdas/poller/handler.py)
\* ======================================================================
\* DISCORD_WEBHOOK_URL (poller/handler.py 42)
DISCORD_WEBHOOK_URL == environ.DISCORD_WEBHOOK_URL

\* --- workflows with a poll trigger ----------------------------------------
PollConfig(url, content_type) ==
    [url |-> url, schedule |-> None, interval_minutes |-> Some(5),
     content_type |-> content_type]
PollWorkflow(enabled, trigger) ==
    [enabled |-> enabled, steps |-> << Step(1) >>, name |-> "wf", trigger |-> trigger]
FeedWorkflow == PollWorkflow(Some(TRUE), Trigger(Some("poll"), PollConfig(Some("https://feed"), "rss")))
HttpWorkflow == PollWorkflow(Some(TRUE), Trigger(Some("poll"), PollConfig(Some("https://page"), "http")))

\* workflow.get("trigger", {}) and config.get("content_type", "rss")
TriggerOfWorkflow(wf) == Get(wf, "trigger", Trigger(None, NoConfig))
ContentTypeOf(trigger) == Get(ConfigOf(trigger), "content_type", "rss")

\* --- fetched content --------------------------------------------------------
\* What fetch_url comes to: a RequestException, or a body; a body has a text
\* (what is hashed), the entries a feed parser finds in it, and whether
\* parsing it raises.
Entry(id, guid, link) == [id |-> id, guid |-> guid, link |-> link]
Content(text, entries, parses) == [text |-> text, entries |-> entries, parses |-> parses]
FetchRaisedWith(message) == [kind |-> "RequestException", message |-> message]
FetchRaised == FetchRaisedWith("timeout")
Fetched(content) == [kind |-> "ok", content |-> content]

\* parse_feed (156-185): guid is id, else guid, else link; at most
\* MAX_FEED_ITEMS entries.
GuidOf(entry) ==
    IF TruthyStr(entry.id) THEN Val(entry.id)
    ELSE IF TruthyStr(entry.guid) THEN Val(entry.guid)
    ELSE entry.link
parse_feed(content) ==
    [i \in 1 .. (IF Len(content.entries) > MAX_FEED_ITEMS THEN MAX_FEED_ITEMS
                 ELSE Len(content.entries)) |->
        [guid |-> GuidOf(content.entries[i]), link |-> content.entries[i].link]]

\* find_new_items (188-199)
find_new_items(items, seen_ids) ==
    LET seen_set == {seen_ids[j] : j \in 1 .. Len(seen_ids)}
    IN SelectSeq(items, LAMBDA item : item.guid \notin seen_set)

\* Mutant: the oldest entries are kept.
Mut_prune_seen_ids(seen_ids, new_ids) ==
    LET combined == seen_ids \o new_ids
    IN IF Len(combined) > MAX_SEEN_ITEMS
       THEN SubSeq(combined, 1, MAX_SEEN_ITEMS)
       ELSE combined

\* A cap one short of what one poll takes: the tail of MAX_FEED_ITEMS - 1.
Mut_prune_seen_ids_short(seen_ids, new_ids) ==
    LET combined == seen_ids \o new_ids
    IN IF Len(combined) > MAX_FEED_ITEMS - 1
       THEN SubSeq(combined, Len(combined) - MAX_FEED_ITEMS + 2, Len(combined))
       ELSE combined

\* prune_seen_ids (202-215): combined[-MAX_SEEN_ITEMS:]
prune_seen_ids(seen_ids, new_ids) ==
    LET combined == seen_ids \o new_ids
    IN IF Len(combined) > MAX_SEEN_ITEMS
       THEN SubSeq(combined, Len(combined) - MAX_SEEN_ITEMS + 1, Len(combined))
       ELSE combined

\* hash_content (223-232): the digest of a text, as a text of its own.
hash_content(text) == "sha256(" \o text \o ")"

\* text[:n]
Prefix(text, n) == IF Len(text) <= n THEN text ELSE SubSeq(text, 1, n)
\* content[:10000] (line 361), error[:1000] (line 502), error[:500] (line 463)
ContentLimit == 10000
ErrorLimit == 1000
NotifyLimit == 500
\* A text of n characters.
RECURSIVE Filler(_)
Filler(n) ==
    IF n = 0 THEN ""
    ELSE LET half == Filler(n \div 2)
         IN half \o half \o (IF n % 2 = 1 THEN "x" ELSE "")

\* Mutant: once a digest is stored, it is the one handed back.
Mut_check_http_changed(text, last_hash) ==
    [changed |-> last_hash = None \/ Some(hash_content(text)) # last_hash,
     current_hash |-> IF last_hash = None THEN hash_content(text) ELSE Val(last_hash)]

\* check_http_changed (235-247); last_hash is None or Some(hash)
check_http_changed(text, last_hash) ==
    [changed |-> last_hash = None \/ Some(hash_content(text)) # last_hash,
     current_hash |-> hash_content(text)]

GuidsOf(items) == [i \in 1 .. Len(items) |-> items[i].guid]

\* Mutant: only the new items are remembered and every item is reported.
Mut_poll_feed(content, item, t) ==
    LET items == parse_feed(content)
        seen_ids == Get(item, "seen_item_ids", <<>>)
        new_items == find_new_items(items, seen_ids)
    IN [new_items |-> items,
        state_updates |->
            [seen_item_ids |-> prune_seen_ids(seen_ids, GuidsOf(new_items)),
             last_checked_at |-> t, consecutive_failures |-> 0, last_error |-> None]]

\* poll_feed (283-323), after the fetch: the new items and the state updates.
poll_feed(content, item, t) ==
    LET items == parse_feed(content)
        seen_ids == Get(item, "seen_item_ids", <<>>)
        new_items == find_new_items(items, seen_ids)
    IN [new_items |-> new_items,
        state_updates |->
            [seen_item_ids |-> prune_seen_ids(seen_ids, GuidsOf(items)),
             last_checked_at |-> t, consecutive_failures |-> 0, last_error |-> None]]

\* Mutant: the first poll reports an execution too.
Mut_poll_http(content, item, t) ==
    LET last_hash == IF "last_content_hash" \in DOMAIN item
                     THEN Some(item.last_content_hash) ELSE None
        c == check_http_changed(content.text, last_hash)
    IN [state_updates |->
            [last_checked_at |-> t, consecutive_failures |-> 0,
             last_error |-> None, last_content_hash |-> c.current_hash],
        trigger_data |->
            IF c.changed
            THEN Some([type |-> "poll", content_type |-> "http",
                       content |-> Prefix(content.text, ContentLimit),
                       content_hash |-> c.current_hash])
            ELSE None]

\* poll_http (327-366), after the fetch; trigger_data is None or Some(data).
poll_http(content, item, t) ==
    LET last_hash == IF "last_content_hash" \in DOMAIN item
                     THEN Some(item.last_content_hash) ELSE None
        c == check_http_changed(content.text, last_hash)
    IN [state_updates |->
            [last_checked_at |-> t, consecutive_failures |-> 0,
             last_error |-> None, last_content_hash |-> c.current_hash],
        trigger_data |->
            IF c.changed /\ last_hash # None
            THEN Some([type |-> "poll", content_type |-> "http",
                       content |-> Prefix(content.text, ContentLimit),
                       content_hash |-> c.current_hash])
            ELSE None]

\* Mutant: a failure also forgets the items seen and the digest.
Mut_handle_failure(item, error, t) ==
    LET failures == Get(item, "consecutive_failures", 0) + 1
    IN [state_updates |-> [seen_item_ids |-> <<>>,
                           last_checked_at |-> t,
                           consecutive_failures |-> failures,
                           last_error |-> Some(Prefix(error, ErrorLimit)), last_content_hash |-> ""],
        failures |-> failures,
        disable |-> failures >= MAX_CONSECUTIVE_FAILURES]

\* handle_failure (477-515): the count, the updates written, and whether the
\* workflow is disabled.
handle_failure(item, error, t) ==
    LET failures == Get(item, "consecutive_failures", 0) + 1
    IN [state_updates |-> [last_checked_at |-> t,
                           consecutive_failures |-> failures,
                           last_error |-> Some(Prefix(error, ErrorLimit))],
        failures |-> failures,
        disable |-> failures >= MAX_CONSECUTIVE_FAILURES]

\* The write as it would be with attribute_exists(workflow_id) as condition.
Mut_disable_workflow(table, w) ==
    IF table[w] = NoWorkflow THEN table
    ELSE [table EXCEPT ![w] = Merge(@, [enabled |-> Some(FALSE)])]

\* disable_workflow (134-148): update_item SET enabled = false with no
\* condition on the item, which DynamoDB applies to the stored item or, when
\* none is stored, to a new item of the key alone.
disable_workflow(table, w) ==
    [table EXCEPT ![w] = Merge(IF @ = NoWorkflow THEN EmptyMap ELSE @,
                               [enabled |-> Some(FALSE)])]

\* handler, lines 535-577: the checks before the poll.
Skip(status, reason) == [status |-> status, reason |-> reason]
Precheck(w) ==
    IF w = "" THEN Skip("error", "missing_workflow_id")
    ELSE IF workflows[w] = NoWorkflow THEN Skip("skipped", "workflow_not_found")
    ELSE IF workflows[w].enabled = Some(FALSE) THEN Skip("skipped", "workflow_disabled")
    ELSE IF TypeOf(TriggerOfWorkflow(workflows[w])) # Some("poll")
    THEN Skip("skipped", "not_poll_trigger")
    ELSE IF UrlOf(TriggerOfWorkflow(workflows[w])) = "" THEN Skip("error", "missing_url")
    ELSE Skip("poll", "")

\* queue_execution (375-408): the message sent.
PollMessage(w, trigger_data) ==
    [execution_id |-> Len(queue) + 1, workflow_id |-> w, trigger_type |-> "poll",
     trigger_data |-> trigger_data]

\* --- one invocation, call by call ------------------------------------------------
\* The handler waits for the answer of get_workflow, get_poll_state, the
\* fetch, update_poll_state, send_message and, in handle_failure, of
\* update_poll_state, disable_workflow, disable_rule and the post to Discord;
\* between two of them other invocations and the API handlers run.
\* inflight[p] is invocation p: the call it is about to make (at) and the
\* locals of the handler.
Quiet == \A p \in Procs : ~inflight[p].busy
Running == Cardinality({p \in Procs : inflight[p].busy})
Invocation(w, trigger) ==
    [item |-> EmptyMap, error |-> None, text |-> "", w |-> w,
     at |-> "get_poll_state", busy |-> TRUE, trigger |-> trigger, items |-> <<>>,
     new_items |-> <<>>, state_updates |-> EmptyMap, trigger_data |-> None,
     queued |-> Len(queue)]

\* The invocation returns: last_poll is what it did.  failed_run counts the
\* invocations that ended failed since one last ended otherwise, disabled
\* those that disabled the workflow.
Ended(i, status, fired) ==
    [n |-> last_poll.n + 1, error |-> i.error, status |-> status, text |-> i.text,
     w |-> i.w, before |-> i.item, items |-> i.items,
     new_items |-> i.new_items, reason |-> "", queued |-> i.queued, fired |-> fired,
     checked_at |-> Get(i.state_updates, "last_checked_at", 0),
     failed_run |-> IF status = "failed" THEN Get(last_poll, "failed_run", 0) + 1 ELSE 0,
     disabled |-> Get(last_poll, "disabled", 0) + (IF fired THEN 1 ELSE 0)]
Return(p, status, fired) ==
    /\ last_poll' = Ended(inflight[p], status, fired)
    /\ inflight' = [inflight EXCEPT ![p] = NotPolling]
Goto(p, at) == inflight' = [inflight EXCEPT ![p].at = at]
\* The except clauses of lines 617-623 call handle_failure, which builds the
\* updates (lines 490-504, now_iso() of line 503 among them) before it calls
\* update_poll_state.
Failing(i, error, t) ==
    [i EXCEPT !.at = "handle_failure", !.error = Some(error),
              !.state_updates = handle_failure(i.item, error, t).state_updates]

\* handler, lines 535-577, for event {"workflow_id": w}: get_workflow and the
\* checks; the invocation returns at once when one of them fails.
PollStart(p, w, cap) ==
    /\ ~inflight[p].busy
    /\ last_poll.n + Running < cap
    /\ LET pre == Precheck(w) IN
       IF pre.status # "poll"
       THEN /\ last_poll' =
                   [Ended(Invocation(w, NoTrigger), pre.status, FALSE)
                       EXCEPT !.reason = pre.reason, !.before = EmptyMap]
            /\ UNCHANGED inflight
       ELSE /\ inflight' = [inflight EXCEPT ![p] =
                   Invocation(w, TriggerOfWorkflow(workflows[w]))]
            /\ UNCHANGED last_poll
    /\ UNCHANGED <<deployment, created, interpolating, starter, scheduling, workflows,
                   poll_state, queue, notified>>

\* get_poll_state (line 580)
PollGetState(p) ==
    /\ inflight[p].busy /\ inflight[p].at = "get_poll_state"
    /\ inflight' = [inflight EXCEPT ![p].item = poll_state[inflight[p].w],
                                    ![p].at = "fetch"]
    /\ UNCHANGED <<deployment, created, interpolating, starter, scheduling, workflows,
                   poll_state, queue, notified, last_poll>>

\* poll_feed (283-323) or poll_http (327-366): fetch_url answers or raises,
\* the body is parsed or hashed and compared with the item read.
PollFetch(p, fetch) ==
    /\ inflight[p].busy /\ inflight[p].at = "fetch"
    /\ LET i == inflight[p]
           type == ContentTypeOf(i.trigger)
       IN inflight' = [inflight EXCEPT ![p] =
            IF fetch.kind # "ok"
            THEN Failing(i, "Request failed: " \o fetch.message, now)
            ELSE IF type \in {"rss", "atom"}
            THEN IF ~fetch.content.parses
                 THEN Failing([i EXCEPT !.text = fetch.content.text],
                              "Unexpected error: parse", now)
                 ELSE LET r == poll_feed(fetch.content, i.item, now)
                      IN [i EXCEPT !.at = "update_poll_state",
                                   !.text = fetch.content.text,
                                   !.items = parse_feed(fetch.content),
                                   !.new_items = r.new_items,
                                   !.state_updates = r.state_updates,
                                   !.trigger_data =
                                       IF Len(r.new_items) = 0 THEN None
                                       ELSE Some([type |-> "poll", content_type |-> type,
                                                  items |-> r.new_items])]
            ELSE LET r == poll_http(fetch.content, i.item, now)
                 IN [i EXCEPT !.at = "update_poll_state",
                              !.text = fetch.content.text,
                              !.state_updates = r.state_updates,
                              !.trigger_data = r.trigger_data]]
    /\ UNCHANGED <<deployment, created, interpolating, starter, scheduling, workflows,
                   poll_state, queue, notified, last_poll>>

\* update_poll_state (lines 586, 606): update_item SET of the state updates
\* on the item as stored now; with nothing to report the invocation returns.
PollUpdate(p) ==
    /\ inflight[p].busy /\ inflight[p].at = "update_poll_state"
    /\ LET i == inflight[p] IN
       /\ poll_state' = [poll_state EXCEPT ![i.w] = Merge(@, i.state_updates)]
       /\ IF i.trigger_data = None
          THEN Return(p, "no_changes", FALSE)
          ELSE Goto(p, "queue_execution") /\ UNCHANGED last_poll
    /\ UNCHANGED <<deployment, created, interpolating, starter, scheduling, workflows,
                   queue, notified>>

\* queue_execution (lines 594, 609): send_message answers or raises.
PollSend(p, send_ok) ==
    /\ inflight[p].busy /\ inflight[p].at = "queue_execution"
    /\ LET i == inflight[p] IN
       IF send_ok
       THEN /\ queue' = Append(queue, PollMessage(i.w, Val(i.trigger_data)))
            /\ Return(p, "triggered", FALSE)
       ELSE /\ inflight' = [inflight EXCEPT ![p] = Failing(i, "Unexpected error: send", now)]
            /\ UNCHANGED <<queue, last_poll>>
    /\ UNCHANGED <<deployment, created, interpolating, starter, scheduling, workflows,
                   poll_state, notified>>

\* handle_failure, lines 497-505: update_poll_state (the update_item of line
\* 122) with the updates built before the call: the count of the item the
\* handler read, plus one, and the time read at line 503.
PollFailure(p) ==
    /\ inflight[p].busy /\ inflight[p].at = "handle_failure"
    /\ LET i == inflight[p]
           fail == handle_failure(i.item, Val(i.error), now)
       IN /\ poll_state' = [poll_state EXCEPT ![i.w] = Merge(@, i.state_updates)]
          /\ IF fail.disable
             THEN Goto(p, "disable_workflow") /\ UNCHANGED last_poll
             ELSE Return(p, "failed", FALSE)
    /\ UNCHANGED <<deployment, created, interpolating, starter, scheduling, workflows,
                   queue, notified>>

\* handle_failure, line 513: disable_workflow (135-148)
PollDisableWorkflow(p) ==
    /\ inflight[p].busy /\ inflight[p].at = "disable_workflow"
    /\ workflows' = disable_workflow(workflows, inflight[p].w)
    /\ Goto(p, "disable_rule")
    /\ UNCHANGED <<deployment, created, interpolating, starter, scheduling, poll_state,
                   queue, notified, last_poll>>

\* handle_failure, line 514: disable_eventbridge_rule (429-440), a rule
\* that is not there is logged.
PollDisableRule(p) ==
    /\ inflight[p].busy /\ inflight[p].at = "disable_rule"
    /\ rules' = disable_rule(rules, get_poll_rule_name(inflight[p].w)).rules
    /\ Goto(p, "notify")
    /\ UNCHANGED <<deployment, created, interpolating, starter, recon, procs, round, workflows,
                   poll_state, queue, notified, last_poll>>

\* handle_failure, line 515: send_discord_notification (444-474) posts when
\* a webhook URL is configured, with the first 500 characters of the error;
\* the post is delivered or its exception logged.  The handler returns
\* "failed".
PollNotify(p, post_ok) ==
    /\ inflight[p].busy /\ inflight[p].at = "notify"
    /\ DISCORD_WEBHOOK_URL = "" => post_ok
    /\ LET i == inflight[p] IN
       notified' = IF DISCORD_WEBHOOK_URL = "" THEN notified
                   ELSE Append(notified,
                               [error |-> Prefix(Val(i.error), NotifyLimit),
                                workflow_id |-> i.w,
                                failures |-> handle_failure(i.item, Val(i.error), now).failures,
                                delivered |-> post_ok])
    /\ Return(p, "failed", TRUE)
    /\ UNCHANGED <<deployment, created, interpolating, starter, scheduling, workflows,
                   poll_state, queue>>

\* ======================================================================
\* The handlers that write workflows and send executions, call by call
\* (src/lambdas/api/handler.py, cron_handler/handler.py,
\* webhook_receiver/handler.py)
\* ======================================================================
\* Each handler waits for the table (get_item, put_item, update_item,
\* delete_item), for the registry and for the queue, one call after the
\* other, and other requests are served in between.  procs[p] carries the
\* handler of request p, the workflow as it read it, the enabled flag and the
\* trigger of the request (None or Some(value)), and its reconciliation call.
Handling(handler, w, current, enabled, trigger) ==
    [enabled |-> enabled, error |-> "", call |-> NoRecon, w |-> w,
     at |-> 0, trigger |-> trigger, stage |-> "read", handler |-> handler,
     current |-> current]
ApiIdle == \A p \in Procs : StageOf(p) = "idle"

\* generate_workflow_id (models.py 87-93): an id no workflow has had.
generate_workflow_id == WorkflowId(created + 1)

\* create_workflow_handler (161-213): create_workflow puts the item under
\* the id just generated (181, 197); sync_workflow_rule(None, trigger)
\* follows (202).
ApiCreate(p, enabled, trigger) ==
    /\ StageOf(p) = "idle"
    /\ created < MaxWorkflows
    /\ created' = created + 1
    /\ workflows' = [workflows EXCEPT ![generate_workflow_id] =
                         PollWorkflow(Some(enabled), trigger)]
    /\ procs' = [procs EXCEPT ![p] =
          Reconciling(ReconCall("sync_workflow_rule", generate_workflow_id, NoTrigger,
                                trigger, FALSE))]
    /\ UNCHANGED <<deployment, interpolating, starter, rules, recon, round, polling>>

\* get_workflow of update_workflow_handler (236), delete_workflow_handler
\* (305) and toggle_workflow_enabled (359); a handler that finds nothing
\* raises NotFoundError and changes nothing.
ApiRead(p, handler, w, enabled, trigger) ==
    /\ StageOf(p) = "idle"
    /\ workflows[w] # NoWorkflow
    /\ procs' = [procs EXCEPT ![p] = Handling(handler, w, workflows[w], enabled, trigger)]
    /\ UNCHANGED <<deployment, created, interpolating, workflows, starter, rules, recon, round, polling>>

\* The reconciliation that follows the write: sync_workflow_rule with the
\* trigger read before when the update carries a trigger (270-275), the
\* deletion of the rule of the kind of the trigger read before (314-336),
\* sync_workflow_enabled with the trigger read before (379).
CleanupOf(h) ==
    LET old == TriggerOfWorkflow(h.current)
        type == TypeOf(old)
    IN IF h.handler = "update"
       THEN IF h.trigger = None THEN IdleProc
            ELSE Reconciling(ReconCall("sync_workflow_rule", h.w, old, Val(h.trigger), FALSE))
       ELSE IF h.handler = "toggle"
       THEN Reconciling(ReconCall("sync_workflow_enabled", h.w, NoTrigger, old,
                                  Val(h.enabled)))
       ELSE IF type = Some("cron")
       THEN Reconciling(ReconCall("delete_schedule_rule", h.w, NoTrigger, NoTrigger, FALSE))
       ELSE IF type = Some("poll")
       THEN Reconciling(ReconCall("delete_poll_rule", h.w, NoTrigger, NoTrigger, FALSE))
       ELSE IdleProc

\* The fields a request writes: those it gives.
UpdatesOf(h) ==
    (IF h.enabled # None THEN [enabled |-> h.enabled] ELSE EmptyMap)
    @@ (IF h.trigger # None THEN [trigger |-> Val(h.trigger)] ELSE EmptyMap)

\* update_workflow (262, 375) and delete_workflow (310), both conditional on
\* the item existing (repository.py 169-186, 202-212).  Without the item the
\* update and the delete handler raise NotFoundError and make no registry
\* call; the toggle handler does not look at the result and goes on.
ApiStore(p) ==
    /\ StageOf(p) = "read"
    /\ LET h == procs[p]
           stored == workflows[h.w] # NoWorkflow
       IN /\ workflows' =
                IF ~stored THEN workflows
                ELSE [workflows EXCEPT ![h.w] =
                         IF h.handler = "delete" THEN NoWorkflow
                         ELSE Merge(@, UpdatesOf(h))]
          /\ procs' = [procs EXCEPT ![p] =
                IF stored \/ h.handler = "toggle" THEN CleanupOf(h) ELSE IdleProc]
    /\ UNCHANGED <<deployment, created, interpolating, starter, rules, recon, round, polling>>

\* The handler returns; an exception of the reconciliation is logged
\* (207-211, 276-282, 318-336, 384-389).
ApiReturn(p) ==
    /\ StageOf(p) = "registry"
    /\ Returned(p)
    /\ procs' = [procs EXCEPT ![p] = IdleProc]
    /\ UNCHANGED <<deployment, created, interpolating, workflows, starter, rules, recon, round, polling>>

\* --- the senders of executions ------------------------------------------------
\* execute_workflow_handler (api/handler.py 408-455), the cron handler
\* (cron_handler/handler.py 92-170) and receive_webhook
\* (webhook_receiver/handler.py 180-245) read the workflow, turn away a
\* missing one and one whose enabled attribute is false (an item without the
\* attribute counts as enabled: workflow.get("enabled", True)), the cron
\* handler also one whose trigger is not cron, and send one message to the
\* execution queue.
Accepts(sender, wf) ==
    /\ wf # NoWorkflow
    /\ Get(wf, "enabled", None) # Some(FALSE)
    /\ sender = "cron" => TypeOf(TriggerOfWorkflow(wf)) = Some("cron")

\* The trigger_data a sender builds once it has accepted the workflow: that
\* of the request body ({} here) for the manual one (api/handler.py 438-439);
\* the schedule, the "time" of the event (None when the event has none) and
\* the clock for the cron handler (cron_handler/handler.py 107, 144-150); the
\* request and the clock for the webhook (webhook_receiver/handler.py 216-223).
TriggerData(sender, wf, time, t) ==
    IF sender = "manual" THEN EmptyMap
    ELSE IF sender = "cron"
    THEN [type |-> "cron", schedule |-> ScheduleOf(TriggerOfWorkflow(wf)),
          scheduled_time |-> time, actual_time |-> t]
    ELSE [type |-> "webhook", payload |-> EmptyMap, method |-> "POST",
          headers |-> EmptyMap, query |-> EmptyMap, timestamp |-> t]

\* The locals of a sender that waits for the queue.
Sending(sender, w, current, trigger_data) ==
    [enabled |-> None, error |-> "", call |-> NoRecon, w |-> w, at |-> 0,
     trigger |-> None, stage |-> "send", trigger_data |-> trigger_data,
     handler |-> sender, current |-> current]

\* time: the "time" of the event that invokes the cron handler.
SendRead(p, sender, w, time, cap) ==
    /\ StageOf(p) = "idle"
    /\ Len(queue) < cap
    /\ Accepts(sender, workflows[w])
    /\ procs' = [procs EXCEPT ![p] =
          Sending(sender, w, workflows[w], TriggerData(sender, workflows[w], time, now))]
    /\ UNCHANGED <<deployment, created, interpolating, workflows, starter, rules, recon, round, polling>>

\* The message of each sender: the manual one carries no execution_id, the
\* others the identifier they generated.
ExecutionMessage(h) ==
    IF h.handler = "manual"
    THEN [workflow_id |-> h.w, trigger_type |-> "manual", trigger_data |-> h.trigger_data]
    ELSE [execution_id |-> Len(queue) + 1, workflow_id |-> h.w, trigger_type |-> h.handler,
          trigger_data |-> h.trigger_data]

\* send_message (api/handler.py 449, cron_handler 84, webhook_receiver 172)
\* answers, or raises and nothing is queued.
SendMessage(p, send_ok) ==
    /\ StageOf(p) = "send"
    /\ queue' = IF send_ok THEN Append(queue, ExecutionMessage(procs[p])) ELSE queue
    /\ procs' = [procs EXCEPT ![p] = IdleProc]
    /\ UNCHANGED <<deployment, created, interpolating, workflows, starter, rules, recon, round,
                   poll_state, notified, last_poll, inflight>>

\* --- specifications of the poller -------------------------------------------
\* A poll workflow as the API's create handler leaves it where the API has the
\* poller's ARN: stored, enabled, its poll rule written.  The poller has the
\* webhook URL or not.
PollRules == Run(NoRules, create_poll_rule("w1", 5), 0, <<>>).rules
InitPoll(wfs) ==
    /\ environ \in {Environment("arn:aws:lambda:poller", url) : url \in WebhookUrls}
    /\ workflows \in {[w \in WfIds |-> wf] : wf \in wfs}
    /\ created = 1
    /\ StarterInit
    /\ rules = PollRules
    /\ recon = NotReconciled
    /\ procs = [p \in Procs |-> IdleProc]
    /\ round = [open |-> FALSE, start |-> NoRules]
    /\ PollingInit
    /\ InterpolatingInit

\* Small bodies: feeds of up to two entries in different orders, one entry
\* without id (its link is its identity), one body that does not parse, one
\* longer than what a report carries.
LongText == Filler(ContentLimit + 1)
E1 == Entry(Some("g1"), None, "https://feed/1")
E2 == Entry(None, Some("g2"), "https://feed/2")
E3 == Entry(None, None, "https://feed/3")
SmallContents ==
    { Content("A", <<>>, TRUE), Content("B", << E1 >>, TRUE),
      Content("C", << E1, E2 >>, TRUE), Content(LongText, << E3, E1 >>, TRUE),
      Content("X", <<>>, FALSE) }

\* Every kind of poll, a few invocations, one at a time.  A fetch raises
\* with a short message or with one longer than what last_error keeps.
NextPoll ==
    \/ \E w \in WfIds \cup {""} : PollStart(1, w, MaxPolls - 1)
    \/ PollGetState(1)
    \/ \E c \in SmallContents : PollFetch(1, Fetched(c))
    \/ \E f \in {FetchRaised, FetchRaisedWith(Filler(ErrorLimit))} : PollFetch(1, f)
    \/ PollUpdate(1)
    \/ \E send_ok \in BOOLEAN : PollSend(1, send_ok)
    \/ PollFailure(1)
    \/ PollDisableWorkflow(1)
    \/ PollDisableRule(1)
    \/ PollNotify(1, TRUE)

SpecPoll == InitPoll({FeedWorkflow, HttpWorkflow}) /\ [][NextPoll]_vars

\* Failing polls while the clock advances between the calls of an invocation.
PollTimes == {StartTime + 1}
NextPollClock ==
    \/ PollStart(1, "w1", MaxPolls - 1)
    \/ PollGetState(1)
    \/ \E c \in {Content("B", << E1 >>, TRUE), Content("X", <<>>, FALSE)} :
          PollFetch(1, Fetched(c))
    \/ \E f \in {FetchRaised, FetchRaisedWith(Filler(ErrorLimit))} : PollFetch(1, f)
    \/ PollUpdate(1)
    \/ \E send_ok \in BOOLEAN : PollSend(1, send_ok)
    \/ PollFailure(1)
    \/ PollDisableWorkflow(1)
    \/ PollDisableRule(1)
    \/ PollNotify(1, TRUE)
    \/ \E t \in PollTimes : Tick(t)

SpecPollClock == InitPoll({FeedWorkflow, HttpWorkflow}) /\ [][NextPollClock]_vars

\* Failing and succeeding polls, and the API enabling and disabling the
\* workflow between them; one invocation or request at a time.
NextFailures ==
    \/ ApiIdle /\ PollStart(1, "w1", MaxPolls)
    \/ PollGetState(1)
    \/ \E c \in {Content("B", << E1 >>, TRUE), Content("X", <<>>, FALSE)} :
          PollFetch(1, Fetched(c))
    \/ PollFetch(1, FetchRaised)
    \/ PollUpdate(1)
    \/ \E send_ok \in BOOLEAN : PollSend(1, send_ok)
    \/ PollFailure(1)
    \/ PollDisableWorkflow(1)
    \/ PollDisableRule(1)
    \/ \E post_ok \in BOOLEAN : PollNotify(1, post_ok)
    \/ \E e \in BOOLEAN : Quiet /\ ApiRead(1, "toggle", "w1", Some(e), None)
    \/ ApiStore(1)
    \/ \E fail \in BOOLEAN : RegistryCall(1, fail)
    \/ ApiReturn(1)

SpecFailures == InitPoll({FeedWorkflow, HttpWorkflow}) /\ [][NextFailures]_vars

\* Large feeds: entries first .. first + count - 1, each with its id.
Window(first, count) ==
    Content("W", [i \in 1 .. count |-> Entry(Some("g" \o ToString(first + i - 1)), None, "")],
            TRUE)
\* The feed of the next poll: entries never seen (one more than a poll
\* takes), the first full feed again, or a single entry never seen.
LargeContents ==
    { Window(MAX_FEED_ITEMS * last_poll.n + 1, MAX_FEED_ITEMS + 1),
      Window(1, MAX_FEED_ITEMS),
      Window(MAX_FEED_ITEMS * last_poll.n + 1, 1) }

NextFeed ==
    \/ PollStart(1, "w1", MaxPolls + 2)
    \/ PollGetState(1)
    \/ \E c \in LargeContents : PollFetch(1, Fetched(c))
    \/ PollUpdate(1)
    \/ PollSend(1, TRUE)

SpecFeed == InitPoll({FeedWorkflow}) /\ [][NextFeed]_vars

\* ----------------------------------------------------------------------
\* Claims on the poller
\* ----------------------------------------------------------------------
FailuresOf(item) == Get(item, "consecutive_failures", 0)

\* C18: a failing poll raises consecutive_failures by one, to 1, 2, 3 or 4;
\* the disable side effects (enabled = false, poll rule disabled,
\* notification) fire on the poll that brings the counter to 4 and on no
\* other, hence once in a streak of failures.
\* Violated: toggle_workflow_enabled re-enables the workflow and its rule and
\* leaves consecutive_failures at 4; the next failing poll writes 5 and, since
\* the test is failures >= MAX_CONSECUTIVE_FAILURES, fires the side effects a
\* second time in the same streak.
C18_FailureStreak ==
    (Quiet /\ last_poll.n > 0 /\ last_poll.status = "failed") =>
        LET failures == FailuresOf(poll_state[last_poll.w])
        IN /\ failures = FailuresOf(last_poll.before) + 1
           /\ failures \in 1 .. MAX_CONSECUTIVE_FAILURES
           /\ last_poll.fired <=> failures = MAX_CONSECUTIVE_FAILURES
           /\ \A i \in 1 .. Len(notified) :
                 notified[i].failures = MAX_CONSECUTIVE_FAILURES

\* The part of C18 that holds: up to the fourth failure of a streak.
C18_UpToFour ==
    (Quiet /\ last_poll.n > 0 /\ last_poll.status = "failed"
        /\ FailuresOf(last_poll.before) < MAX_CONSECUTIVE_FAILURES) =>
        LET failures == FailuresOf(poll_state[last_poll.w])
        IN /\ failures = FailuresOf(last_poll.before) + 1
           /\ last_poll.fired <=> failures = MAX_CONSECUTIVE_FAILURES

\* The side effects fired twice in one streak.
C18_FiredTwice ==
    /\ Len(notified) = 2
    /\ notified[1].failures = MAX_CONSECUTIVE_FAILURES
    /\ notified[2].failures = MAX_CONSECUTIVE_FAILURES + 1

\* The identities in a list of seen ids, and whether a workflow polls a feed.
IdsIn(seen_ids) == {seen_ids[j] : j \in 1 .. Len(seen_ids)}
PollsFeed(w) == ContentTypeOf(TriggerOfWorkflow(workflows[w])) \in {"rss", "atom"}
SucceededLast == last_poll.n > 0 /\ last_poll.status \in {"triggered", "no_changes"}
Succeeded == Quiet /\ SucceededLast

\* C19: after a successful feed poll, the items reported as new are the
\* fetched items whose guid was not in the stored seen_item_ids, in feed
\* order; one message carrying them was enqueued if there are any and none
\* otherwise; the stored seen_item_ids holds the guid of every fetched item.
C19_NewItemsReported ==
    (Succeeded /\ PollsFeed(last_poll.w)) =>
        LET w == last_poll.w
            seen == IdsIn(Get(last_poll.before, "seen_item_ids", <<>>))
            expected == SelectSeq(last_poll.items, LAMBDA item : item.guid \notin seen)
        IN /\ Len(last_poll.new_items) = Len(expected)
           /\ \A i \in 1 .. Len(expected) : last_poll.new_items[i] = expected[i]
           /\ IF Len(expected) > 0
              THEN /\ last_poll.status = "triggered"
                   /\ Len(queue) = last_poll.queued + 1
                   /\ queue[Len(queue)].workflow_id = w
                   /\ Len(queue[Len(queue)].trigger_data.items) = Len(expected)
                   /\ \A i \in 1 .. Len(expected) :
                         queue[Len(queue)].trigger_data.items[i] = expected[i]
              ELSE /\ last_poll.status = "no_changes"
                   /\ Len(queue) = last_poll.queued
           /\ \A i \in 1 .. Len(last_poll.items) :
                 last_poll.items[i].guid \in IdsIn(poll_state[w].seen_item_ids)

\* A feed of two items, the first seen before and the second not: only the
\* second was reported and both are stored.
C19_Witness ==
    /\ Succeeded /\ PollsFeed(last_poll.w)
    /\ Get(last_poll.before, "seen_item_ids", <<>>) = << "g1" >>
    /\ GuidsOf(last_poll.items) = << "g1", "g2" >>
    /\ GuidsOf(last_poll.new_items) = << "g2" >>
    /\ Len(queue) = last_poll.queued + 1
    /\ {"g1", "g2"} \subseteq IdsIn(poll_state[last_poll.w].seen_item_ids)

SeenOf(item) == Get(item, "seen_item_ids", <<>>)
Polling ==
    Quiet /\ last_poll.n > 0 /\ last_poll.status \in {"triggered", "no_changes", "failed"}

\* C20: the stored seen_item_ids never has more than 500 entries, and after
\* a poll it is the old list followed by the guids observed, without as many
\* of its first entries as exceed 500.
C20_SeenCapped ==
    /\ \A w \in WfIds : Len(SeenOf(poll_state[w])) <= MAX_SEEN_ITEMS
    /\ Polling =>
          LET stored == SeenOf(poll_state[last_poll.w])
              combined == SeenOf(last_poll.before) \o GuidsOf(last_poll.items)
              dropped == IF Len(combined) > MAX_SEEN_ITEMS
                         THEN Len(combined) - MAX_SEEN_ITEMS ELSE 0
          IN /\ Len(stored) = Len(combined) - dropped
             /\ \A i \in 1 .. Len(stored) : stored[i] = combined[i + dropped]

\* A poll that found 500 stored ids and observed 100 more: the 100 oldest
\* were dropped.
C20_Witness ==
    /\ Polling
    /\ Len(SeenOf(last_poll.before)) = MAX_SEEN_ITEMS
    /\ Len(last_poll.items) = MAX_FEED_ITEMS
    /\ Len(SeenOf(poll_state[last_poll.w])) = MAX_SEEN_ITEMS
    /\ SeenOf(poll_state[last_poll.w])[1] = SeenOf(last_poll.before)[MAX_FEED_ITEMS + 1]

PollsHttp(w) == ~PollsFeed(w)
HasDigest(item) == "last_content_hash" \in DOMAIN item

\* C21: a successful HTTP poll enqueues an execution iff a digest was stored
\* and differs from the digest of the content fetched; the message carries
\* the new digest.  No stored digest, or the same digest: no execution.
C21_HttpReportsChange ==
    (Succeeded /\ PollsHttp(last_poll.w)) =>
        LET digest == hash_content(last_poll.text)
            differs == /\ HasDigest(last_poll.before)
                       /\ last_poll.before.last_content_hash # digest
        IN IF differs
           THEN /\ last_poll.status = "triggered"
                /\ Len(queue) = last_poll.queued + 1
                /\ queue[Len(queue)].workflow_id = last_poll.w
                /\ queue[Len(queue)].trigger_data.content_hash = digest
           ELSE /\ last_poll.status = "no_changes"
                /\ Len(queue) = last_poll.queued

\* Content "B" was fetched while the digest of "A" was stored: an execution
\* with the digest of "B" was enqueued.
C21_Witness ==
    /\ Succeeded /\ PollsHttp(last_poll.w)
    /\ HasDigest(last_poll.before)
    /\ last_poll.before.last_content_hash = hash_content("A")
    /\ last_poll.text = "B"
    /\ last_poll.status = "triggered"
    /\ queue[Len(queue)].trigger_data.content_hash = hash_content("B")

\* The first poll, with no digest stored, enqueued nothing.
C21_FirstPoll ==
    /\ Succeeded /\ PollsHttp(last_poll.w)
    /\ ~HasDigest(last_poll.before)
    /\ last_poll.status = "no_changes"
    /\ Len(queue) = 0

\* The poll failed before anything was written: the fetch raised or the body
\* did not parse.
FetchOrParseFailed ==
    /\ Quiet
    /\ last_poll.n > 0 /\ last_poll.status = "failed"
    /\ last_poll.error # Some("Unexpected error: send")
FailureFields == {"consecutive_failures", "last_error", "last_checked_at"}

\* C22: a poll that fails on fetch or parse writes consecutive_failures (old
\* value + 1), last_error and last_checked_at and nothing else: every other
\* attribute of the PollState, seen_item_ids and last_content_hash among
\* them, is as it was, and no message is enqueued.  last_checked_at is the
\* time handle_failure read before the write, which the clock may have passed
\* since.
C22_FailureWritesOnlyCounters ==
    FetchOrParseFailed =>
        LET old == last_poll.before
            new == poll_state[last_poll.w]
        IN /\ DOMAIN new = DOMAIN old \cup FailureFields
           /\ \A k \in DOMAIN old \ FailureFields : new[k] = old[k]
           /\ new.consecutive_failures = FailuresOf(old) + 1
           /\ new.last_error = Some(Prefix(Val(last_poll.error), ErrorLimit))
           /\ new.last_checked_at = last_poll.checked_at
           /\ new.last_checked_at \in StartTime .. now
           /\ Len(queue) = last_poll.queued

\* A fetch failed while seen ids were stored: they are still stored, and the
\* time written is the one read before the clock advanced.
C22_Witness ==
    /\ FetchOrParseFailed
    /\ Len(SeenOf(last_poll.before)) > 0
    /\ SeenOf(poll_state[last_poll.w]) = SeenOf(last_poll.before)
    /\ poll_state[last_poll.w].consecutive_failures = FailuresOf(last_poll.before) + 1
    /\ poll_state[last_poll.w].last_checked_at < now

\* Not a property of the code: the time a failed poll writes is the time of
\* the write.  The clock advances between line 503 and the update_item.
C22_StampedAtWrite ==
    [][\A p \in Procs :
          (inflight[p].busy /\ inflight[p].at = "handle_failure"
              /\ poll_state' # poll_state) =>
             poll_state'[inflight[p].w].last_checked_at = now]_vars

\* A parse or fetch failed while a digest was stored: it is still stored.
C22_WitnessDigest ==
    /\ FetchOrParseFailed
    /\ HasDigest(last_poll.before)
    /\ poll_state[last_poll.w].last_content_hash = last_poll.before.last_content_hash

\* The content was fetched and parsed: the poll wrote the state updates of
\* poll_feed or poll_http.
FetchedAndParsed == Polling /\ ~FetchOrParseFailed

\* C23: after every invocation that fetched and parsed the content, the
\* stored PollState has consecutive_failures = 0 and no last_error.
\* Violated: when queue_execution raises after the state was written, the
\* handler's except clause calls handle_failure with the poll state read at
\* the start, which writes consecutive_failures = old + 1 and last_error.
C23_SuccessResetsFailures ==
    FetchedAndParsed =>
        /\ FailuresOf(poll_state[last_poll.w]) = 0
        /\ Get(poll_state[last_poll.w], "last_error", None) = None

\* The part of C23 that holds: polls that returned triggered or no_changes.
C23_ReturnedSuccess ==
    Succeeded =>
        /\ FailuresOf(poll_state[last_poll.w]) = 0
        /\ Get(poll_state[last_poll.w], "last_error", None) = None

\* The content was fetched and parsed, the enqueue raised, and the counter
\* was raised.
C23_EnqueueFailed ==
    /\ FetchedAndParsed
    /\ last_poll.error = Some("Unexpected error: send")
    /\ FailuresOf(poll_state[last_poll.w]) = FailuresOf(last_poll.before) + 1

\* ======================================================================
\* Records deleted under the writers (Executions: the ttl attribute of
\* create_execution, lines 97 and 110)
\* ======================================================================
\* The table drops an execution record.
ExpireExecution(key) ==
    /\ key \in DOMAIN executions
    /\ executions' = [k \in DOMAIN executions \ {key} |-> executions[k]]
    /\ UNCHANGED <<deployment, created, interpolating, scheduling, polling, workflows, clock, store, cache, pc, batch, idx,
                   locals, resolved, sfn, generated>>

\* The PollState item of a workflow is deleted (the table has no ttl and no
\* code of the platform deletes from it: a deletion from outside).
ExpirePollState(w) ==
    /\ DOMAIN poll_state[w] # {}
    /\ poll_state' = [poll_state EXCEPT ![w] = EmptyMap]
    /\ UNCHANGED <<deployment, created, interpolating, starter, scheduling, workflows, queue, notified, last_poll, inflight>>

\* One trigger message and two polls of a feed workflow, while records are
\* deleted.
NextExpiry ==
    \/ Worker({CallRaised("ThrottlingException"),
               CallReturned(Response("SUCCEEDED", OutObject({StepId(1)}, NoIndex), None, None))},
              {<<b>> : b \in Bodies \ {Malformed}}, 1)
    \/ \E key \in DOMAIN executions : ExpireExecution(key)
    \/ PollStart(1, "w1", MaxPolls - 3)
    \/ PollGetState(1)
    \/ \E c \in {Content("B", << E1 >>, TRUE), Content("X", <<>>, FALSE)} :
          PollFetch(1, Fetched(c))
    \/ PollUpdate(1)
    \/ PollSend(1, TRUE)
    \/ PollFailure(1)
    \/ \E w \in WfIds : ExpirePollState(w)

SpecExpiry == InitPoll({FeedWorkflow}) /\ [][NextExpiry]_vars

\* The attributes create_execution writes.
ExecutionAttributes ==
    {"workflow_id", "execution_id", "workflow_name", "status", "trigger_type",
     "steps", "started_at", "finished_at", "error"}

\* C24: an update that finds no record leaves none: every stored execution
\* record has the attributes it was created with, and a poll that found no
\* PollState item leaves none.
\* Violated: update_item is called without a ConditionExpression in
\* update_execution_status, update_execution_with_results and
\* update_poll_state, so it creates an item holding the key and the
\* attributes of the SET expression.
C24_UpdatesNeedRecord ==
    /\ \A key \in DOMAIN executions : ExecutionAttributes \subseteq DOMAIN executions[key]
    /\ (Polling /\ DOMAIN last_poll.before = {}) => DOMAIN poll_state[last_poll.w] = {}

\* An execution record without the attributes of its creation: the status
\* update re-created it after the deletion.
C24_PartialExecution ==
    \E key \in DOMAIN executions :
        /\ "started_at" \notin DOMAIN executions[key]
        /\ executions[key].status \in {"running", "success", "failed"}

\* A PollState item deleted after a poll stored seen ids, and re-created by a
\* failing poll without them.
C24_PartialPollState ==
    /\ FetchOrParseFailed
    /\ last_poll.n = 2
    /\ DOMAIN last_poll.before = {}
    /\ DOMAIN poll_state[last_poll.w] = FailureFields

\* ======================================================================
\* Interpolation (src/lambdas/shared/interpolation.py)
\* ======================================================================
\* A text is a sequence of characters; Str is the string it spells and Chars
\* the text of a string.  A character is written as itself, a one-character
\* string, when it is a tab, a line feed, a form feed, a carriage return, a
\* printable ASCII character but the grave accent, or a character of
\* U+00A0..U+00FF, and as the six characters U+XXXX of its code point
\* (upper-case hexadecimal) otherwise, up to U+FFFF.
RECURSIVE Str(_)
Str(text) == IF Len(text) = 0 THEN "" ELSE Head(text) \o Str(Tail(text))
Chars(s) == [i \in 1 .. Len(s) |-> SubSeq(s, i, i)]
T(x) == << x >>

\* U+0020..U+007E and U+00A0..U+00FF in the order of their code points.
Ascii ==
    Chars(" !\"#$%&'()*+,-./0123456789:;<=>?@ABCDEFGHIJKLMNOPQRSTUVWXYZ[\\]^_") \o T("U+0060")
    \o Chars("abcdefghijklmnopqrstuvwxyz{|}~")
Latin1 == Chars(" ¡¢£¤¥¦§¨©ª«¬­®¯°±²³´µ¶·¸¹º»¼½¾¿ÀÁÂÃÄÅÆÇÈÉÊËÌÍÎÏÐÑÒÓÔÕÖ×ØÙÚÛÜÝÞßàáâãäåæçèéêëìíîïðñòóôõö÷øùúûüýþÿ")
HexUpper == Chars("0123456789ABCDEF")
HexLower == Chars("0123456789abcdef")
Digits == Chars("0123456789")
Occurs(text, c) == \E i \in 1 .. Len(text) : text[i] = c
IndexIn(text, c) == CHOOSE i \in 1 .. Len(text) : text[i] = c

\* ord(c) and chr(n)
ord(c) ==
    IF Len(c) = 6
    THEN LET d == [i \in 1 .. 4 |-> IndexIn(HexUpper, SubSeq(c, i + 2, i + 2)) - 1]
         IN ((d[1] * 16 + d[2]) * 16 + d[3]) * 16 + d[4]
    ELSE IF c = "\t" THEN 9
    ELSE IF c = "\n" THEN 10
    ELSE IF c = "\f" THEN 12
    ELSE IF c = "\r" THEN 13
    ELSE IF Occurs(Ascii, c) THEN 31 + IndexIn(Ascii, c)
    ELSE 159 + IndexIn(Latin1, c)
\* n in `width` hexadecimal digits
RECURSIVE Hex(_, _, _)
Hex(n, width, digits) ==
    IF width = 0 THEN <<>>
    ELSE Hex(n \div 16, width - 1, digits) \o T(digits[(n % 16) + 1])
chr(n) ==
    IF n = 9 THEN "\t"
    ELSE IF n = 10 THEN "\n"
    ELSE IF n = 12 THEN "\f"
    ELSE IF n = 13 THEN "\r"
    ELSE IF n \in 32 .. 126 THEN Ascii[n - 31]
    ELSE IF n \in 160 .. 255 THEN Latin1[n - 159]
    ELSE "U+" \o Str(Hex(n, 4, HexUpper))

\* \d of a str pattern and int(): the decimal digits of every script (Unicode
\* category Nd), each script's ten digits from its zero on.
DigitZeros ==
    {48, 1632, 1776, 1984, 2406, 2534, 2662, 2790, 2918, 3046, 3174, 3302, 3430,
     3558, 3664, 3792, 3872, 4160, 4240, 6112, 6160, 6470, 6608, 6784, 6800,
     6992, 7088, 7232, 7248, 42528, 43216, 43264, 43472, 43504, 43600, 44016,
     65296}
IsDigit(c) == \E z \in DigitZeros : ord(c) \in z .. z + 9
DigitValue(c) == ord(c) - (CHOOSE z \in DigitZeros : ord(c) \in z .. z + 9)
\* int(index)
RECURSIVE ToInt(_)
ToInt(text) ==
    IF Len(text) = 0 THEN 0
    ELSE ToInt(SubSeq(text, 1, Len(text) - 1)) * 10 + DigitValue(text[Len(text)])

\* str.isspace(), which is also \s of a str pattern
WhitespaceCodes ==
    (9 .. 13) \cup (28 .. 32) \cup {133, 160, 5760} \cup (8192 .. 8202)
    \cup {8232, 8233, 8239, 8287, 12288}
isspace(c) == ord(c) \in WhitespaceCodes

\* str.strip() and str.split(sep)
RECURSIVE lstrip(_)
lstrip(text) == IF Len(text) > 0 /\ isspace(Head(text)) THEN lstrip(Tail(text)) ELSE text
RECURSIVE rstrip(_)
rstrip(text) ==
    IF Len(text) > 0 /\ isspace(text[Len(text)])
    THEN rstrip(SubSeq(text, 1, Len(text) - 1)) ELSE text
strip(text) == rstrip(lstrip(text))
RECURSIVE split(_, _)
split(text, sep) ==
    IF \A i \in 1 .. Len(text) : text[i] # sep THEN << text >>
    ELSE LET i == CHOOSE j \in 1 .. Len(text) :
                      text[j] = sep /\ \A k \in 1 .. j - 1 : text[k] # sep
         IN << SubSeq(text, 1, i - 1) >> \o split(SubSeq(text, i + 1, Len(text)), sep)

\* --- values ------------------------------------------------------------------
\* None, str, int, bool, list, and dict as its items in insertion order.
VNone == [t |-> "NoneType"]
VStr(x) == [v |-> x, t |-> "str"]
VInt(n) == [v |-> n, t |-> "int"]
VBool(b) == [v |-> b, t |-> "bool"]
VList(items) == [v |-> items, t |-> "list"]
VDict(items) == [v |-> items, t |-> "dict"]
\* An item of a dict: its key, a text, and its value.
DictItem(k, v) == [k |-> k, v |-> v]
KV(k, v) == DictItem(Chars(k), v)
\* key in d, d[key]
Has(d, key) == \E i \in 1 .. Len(d.v) : d.v[i].k = key
Lookup(d, key) == d.v[CHOOSE i \in 1 .. Len(d.v) : d.v[i].k = key].v

\* What a call comes to: a value, or InterpolationError(path, message).
Returns(value) == [value |-> value, ok |-> TRUE]
InterpolationError(path, message) == [path |-> Str(path), ok |-> FALSE, message |-> message]

\* ARRAY_INDEX_PATTERN (line 26): ^(.+?)\[(\d+)\]$ with match().  "." is any
\* character but the line feed; "$" is the end of the text or the place
\* before a line feed that ends it.
array_match(part) ==
    LET n == IF Len(part) > 0 /\ part[Len(part)] = "\n" THEN Len(part) - 1 ELSE Len(part)
        opens == {i \in 2 .. n - 2 :
                     /\ part[i] = "["
                     /\ \A j \in i + 1 .. n - 1 : IsDigit(part[j])
                     /\ \A j \in 1 .. i - 1 : part[j] # "\n"}
    IN IF n >= 4 /\ part[n] = "]" /\ opens # {}
       THEN LET i == CHOOSE o \in opens : TRUE
            IN [key |-> SubSeq(part, 1, i - 1), matched |-> TRUE,
                index |-> ToInt(SubSeq(part, i + 1, n - 1))]
       ELSE [matched |-> FALSE]

\* The loop of _resolve_path (lines 45-88), from part i on; ResolvePart is
\* one pass on a current value that is not None (lines 50-88), m being
\* ARRAY_INDEX_PATTERN.match(part).
RECURSIVE ResolveFrom(_, _, _, _)
RECURSIVE ResolvePart(_, _, _, _, _)
ResolveFrom(current, parts, i, path) ==
    IF i > Len(parts) THEN Returns(current)
    ELSE IF current = VNone
    THEN InterpolationError(path, "Cannot access '" \o Str(parts[i]) \o "' on None")
    ELSE ResolvePart(current, parts, i, path, array_match(parts[i]))
ResolvePart(current, parts, i, path, m) ==
    LET part == parts[i]
    IN IF m.matched
       THEN IF current.t = "dict"
            THEN IF ~Has(current, m.key)
                 THEN InterpolationError(path, "Key '" \o Str(m.key) \o "' not found")
                 ELSE LET array == Lookup(current, m.key)
                      IN IF array.t # "list"
                         THEN InterpolationError(path,
                                  "Expected list for index [" \o ToString(m.index)
                                  \o "], got " \o array.t)
                         ELSE IF m.index >= Len(array.v)
                         THEN InterpolationError(path,
                                  "Index " \o ToString(m.index) \o " out of range (length "
                                  \o ToString(Len(array.v)) \o ")")
                         ELSE ResolveFrom(array.v[m.index + 1], parts, i + 1, path)
            ELSE InterpolationError(path,
                     "Expected dict to access '" \o Str(m.key) \o "', got " \o current.t)
       ELSE IF current.t = "dict"
            THEN IF ~Has(current, part)
                 THEN InterpolationError(path, "Key '" \o Str(part) \o "' not found")
                 ELSE ResolveFrom(Lookup(current, part), parts, i + 1, path)
            ELSE IF current.t = "list"
            THEN InterpolationError(path, "Cannot access key '" \o Str(part) \o "' on list")
            ELSE InterpolationError(path,
                     "Cannot access '" \o Str(part) \o "' on " \o current.t)

\* Mutant: a path that cannot be resolved yields None.
Mut_resolve_path(context, path) ==
    LET r == ResolveFrom(context, split(strip(path), "."), 1, path)
    IN IF r.ok THEN r ELSE Returns(VNone)

\* _resolve_path (lines 29-90)
resolve_path(context, path) == ResolveFrom(context, split(strip(path), "."), 1, path)

\* --- texts of values -----------------------------------------------------------
\* The tables below are those of the interpreter (Unicode 14.0), for the
\* characters up to U+FFFF.
InRanges(n, ranges) == \E r \in ranges : n >= r[1] /\ n <= r[2]
Mapped(n, runs) ==
    {r \in runs : n >= r[1] /\ n <= r[2] /\ (n - r[1]) % r[3] = 0}
Several(n, special) == {r \in special : r[1] = n}
CharsOf(codes) == [i \in 1 .. Len(codes) |-> chr(codes[i])]

\* str.upper() of one character: the characters first, first + step, ..
\* last of a run <<first, last, step, delta>> map to the character delta code
\* points on; UpperSpecial holds the characters that map to several.

UpperRuns ==
    {<<97, 122, 1, -32>>, <<181, 181, 1, 743>>, <<224, 246, 1, -32>>, <<248, 254, 1, -32>>,
     <<255, 255, 1, 121>>, <<257, 303, 2, -1>>, <<305, 305, 1, -232>>, <<307, 311, 2, -1>>,
     <<314, 328, 2, -1>>, <<331, 375, 2, -1>>, <<378, 382, 2, -1>>, <<383, 383, 1, -300>>,
     <<384, 384, 1, 195>>, <<387, 389, 2, -1>>, <<392, 392, 1, -1>>, <<396, 396, 1, -1>>,
     <<402, 402, 1, -1>>, <<405, 405, 1, 97>>, <<409, 409, 1, -1>>, <<410, 410, 1, 163>>,
     <<414, 414, 1, 130>>, <<417, 421, 2, -1>>, <<424, 424, 1, -1>>, <<429, 429, 1, -1>>,
     <<432, 432, 1, -1>>, <<436, 438, 2, -1>>, <<441, 441, 1, -1>>, <<445, 445, 1, -1>>,
     <<447, 447, 1, 56>>, <<453, 453, 1, -1>>, <<454, 454, 1, -2>>, <<456, 456, 1, -1>>,
     <<457, 457, 1, -2>>, <<459, 459, 1, -1>>, <<460, 460, 1, -2>>, <<462, 476, 2, -1>>,
     <<477, 477, 1, -79>>, <<479, 495, 2, -1>>, <<498, 498, 1, -1>>, <<499, 499, 1, -2>>,
     <<501, 501, 1, -1>>, <<505, 543, 2, -1>>, <<547, 563, 2, -1>>, <<572, 572, 1, -1>>,
     <<575, 576, 1, 10815>>, <<578, 578, 1, -1>>, <<583, 591, 2, -1>>, <<592, 592, 1, 10783>>,
     <<593, 593, 1, 10780>>, <<594, 594, 1, 10782>>, <<595, 595, 1, -210>>,
     <<596, 596, 1, -206>>, <<598, 599, 1, -205>>, <<601, 601, 1, -202>>, <<603, 603, 1, -203>>,
     <<604, 604, 1, 42319>>, <<608, 608, 1, -205>>, <<609, 609, 1, 42315>>,
     <<611, 611, 1, -207>>, <<613, 613, 1, 42280>>, <<614, 614, 1, 42308>>,
     <<616, 616, 1, -209>>, <<617, 617, 1, -211>>, <<618, 618, 1, 42308>>,
     <<619, 619, 1, 10743>>, <<620, 620, 1, 42305>>, <<623, 623, 1, -211>>,
     <<625, 625, 1, 10749>>, <<626, 626, 1, -213>>, <<629, 629, 1, -214>>,
     <<637, 637, 1, 10727>>, <<640, 640, 1, -218>>, <<642, 642, 1, 42307>>,
     <<643, 643, 1, -218>>, <<647, 647, 1, 42282>>, <<648, 648, 1, -218>>, <<649, 649, 1, -69>>,
     <<650, 651, 1, -217>>, <<652, 652, 1, -71>>, <<658, 658, 1, -219>>, <<669, 669, 1, 42261>>,
     <<670, 670, 1, 42258>>, <<837, 837, 1, 84>>, <<881, 883, 2, -1>>, <<887, 887, 1, -1>>,
     <<891, 893, 1, 130>>, <<940, 940, 1, -38>>, <<941, 943, 1, -37>>, <<945, 961, 1, -32>>,
     <<962, 962, 1, -31>>, <<963, 971, 1, -32>>, <<972, 972, 1, -64>>, <<973, 974, 1, -63>>,
     <<976, 976, 1, -62>>, <<977, 977, 1, -57>>, <<981, 981, 1, -47>>, <<982, 982, 1, -54>>,
     <<983, 983, 1, -8>>, <<985, 1007, 2, -1>>, <<1008, 1008, 1, -86>>, <<1009, 1009, 1, -80>>,
     <<1010, 1010, 1, 7>>, <<1011, 1011, 1, -116>>, <<1013, 1013, 1, -96>>,
     <<1016, 1016, 1, -1>>, <<1019, 1019, 1, -1>>, <<1072, 1103, 1, -32>>,
     <<1104, 1119, 1, -80>>, <<1121, 1153, 2, -1>>, <<1163, 1215, 2, -1>>,
     <<1218, 1230, 2, -1>>, <<1231, 1231, 1, -15>>, <<1233, 1327, 2, -1>>,
     <<1377, 1414, 1, -48>>, <<4304, 4346, 1, 3008>>, <<4349, 4351, 1, 3008>>,
     <<5112, 5117, 1, -8>>, <<7296, 7296, 1, -6254>>, <<7297, 7297, 1, -6253>>,
     <<7298, 7298, 1, -6244>>, <<7299, 7300, 1, -6242>>, <<7301, 7301, 1, -6243>>,
     <<7302, 7302, 1, -6236>>, <<7303, 7303, 1, -6181>>, <<7304, 7304, 1, 35266>>,
     <<7545, 7545, 1, 35332>>, <<7549, 7549, 1, 3814>>, <<7566, 7566, 1, 35384>>,
     <<7681, 7829, 2, -1>>, <<7835, 7835, 1, -59>>, <<7841, 7935, 2, -1>>, <<7936, 7943, 1, 8>>,
     <<7952, 7957, 1, 8>>, <<7968, 7975, 1, 8>>, <<7984, 7991, 1, 8>>, <<8000, 8005, 1, 8>>,
     <<8017, 8023, 2, 8>>, <<8032, 8039, 1, 8>>, <<8048, 8049, 1, 74>>, <<8050, 8053, 1, 86>>,
     <<8054, 8055, 1, 100>>, <<8056, 8057, 1, 128>>, <<8058, 8059, 1, 112>>,
     <<8060, 8061, 1, 126>>, <<8112, 8113, 1, 8>>, <<8126, 8126, 1, -7205>>,
     <<8144, 8145, 1, 8>>, <<8160, 8161, 1, 8>>, <<8165, 8165, 1, 7>>, <<8526, 8526, 1, -28>>,
     <<8560, 8575, 1, -16>>, <<8580, 8580, 1, -1>>, <<9424, 9449, 1, -26>>,
     <<11312, 11359, 1, -48>>, <<11361, 11361, 1, -1>>, <<11365, 11365, 1, -10795>>,
     <<11366, 11366, 1, -10792>>, <<11368, 11372, 2, -1>>, <<11379, 11379, 1, -1>>,
     <<11382, 11382, 1, -1>>, <<11393, 11491, 2, -1>>, <<11500, 11502, 2, -1>>,
     <<11507, 11507, 1, -1>>, <<11520, 11557, 1, -7264>>, <<11559, 11559, 1, -7264>>,
     <<11565, 11565, 1, -7264>>, <<42561, 42605, 2, -1>>, <<42625, 42651, 2, -1>>,
     <<42787, 42799, 2, -1>>, <<42803, 42863, 2, -1>>, <<42874, 42876, 2, -1>>,
     <<42879, 42887, 2, -1>>, <<42892, 42892, 1, -1>>, <<42897, 42899, 2, -1>>,
     <<42900, 42900, 1, 48>>, <<42903, 42921, 2, -1>>, <<42933, 42947, 2, -1>>,
     <<42952, 42954, 2, -1>>, <<42961, 42961, 1, -1>>, <<42967, 42969, 2, -1>>,
     <<42998, 42998, 1, -1>>, <<43859, 43859, 1, -928>>, <<43888, 43967, 1, -38864>>,
     <<65345, 65370, 1, -32>>}

UpperSpecial ==
    {<<223, <<83, 83>>>>, <<329, <<700, 78>>>>, <<496, <<74, 780>>>>,
     <<912, <<921, 776, 769>>>>, <<944, <<933, 776, 769>>>>, <<1415, <<1333, 1362>>>>,
     <<7830, <<72, 817>>>>, <<7831, <<84, 776>>>>, <<7832, <<87, 778>>>>, <<7833, <<89, 778>>>>,
     <<7834, <<65, 702>>>>, <<8016, <<933, 787>>>>, <<8018, <<933, 787, 768>>>>,
     <<8020, <<933, 787, 769>>>>, <<8022, <<933, 787, 834>>>>, <<8064, <<7944, 921>>>>,
     <<8065, <<7945, 921>>>>, <<8066, <<7946, 921>>>>, <<8067, <<7947, 921>>>>,
     <<8068, <<7948, 921>>>>, <<8069, <<7949, 921>>>>, <<8070, <<7950, 921>>>>,
     <<8071, <<7951, 921>>>>, <<8072, <<7944, 921>>>>, <<8073, <<7945, 921>>>>,
     <<8074, <<7946, 921>>>>, <<8075, <<7947, 921>>>>, <<8076, <<7948, 921>>>>,
     <<8077, <<7949, 921>>>>, <<8078, <<7950, 921>>>>, <<8079, <<7951, 921>>>>,
     <<8080, <<7976, 921>>>>, <<8081, <<7977, 921>>>>, <<8082, <<7978, 921>>>>,
     <<8083, <<7979, 921>>>>, <<8084, <<7980, 921>>>>, <<8085, <<7981, 921>>>>,
     <<8086, <<7982, 921>>>>, <<8087, <<7983, 921>>>>, <<8088, <<7976, 921>>>>,
     <<8089, <<7977, 921>>>>, <<8090, <<7978, 921>>>>, <<8091, <<7979, 921>>>>,
     <<8092, <<7980, 921>>>>, <<8093, <<7981, 921>>>>, <<8094, <<7982, 921>>>>,
     <<8095, <<7983, 921>>>>, <<8096, <<8040, 921>>>>, <<8097, <<8041, 921>>>>,
     <<8098, <<8042, 921>>>>, <<8099, <<8043, 921>>>>, <<8100, <<8044, 921>>>>,
     <<8101, <<8045, 921>>>>, <<8102, <<8046, 921>>>>, <<8103, <<8047, 921>>>>,
     <<8104, <<8040, 921>>>>, <<8105, <<8041, 921>>>>, <<8106, <<8042, 921>>>>,
     <<8107, <<8043, 921>>>>, <<8108, <<8044, 921>>>>, <<8109, <<8045, 921>>>>,
     <<8110, <<8046, 921>>>>, <<8111, <<8047, 921>>>>, <<8114, <<8122, 921>>>>,
     <<8115, <<913, 921>>>>, <<8116, <<902, 921>>>>, <<8118, <<913, 834>>>>,
     <<8119, <<913, 834, 921>>>>, <<8124, <<913, 921>>>>, <<8130, <<8138, 921>>>>,
     <<8131, <<919, 921>>>>, <<8132, <<905, 921>>>>, <<8134, <<919, 834>>>>,
     <<8135, <<919, 834, 921>>>>, <<8140, <<919, 921>>>>, <<8146, <<921, 776, 768>>>>,
     <<8147, <<921, 776, 769>>>>, <<8150, <<921, 834>>>>, <<8151, <<921, 776, 834>>>>,
     <<8162, <<933, 776, 768>>>>, <<8163, <<933, 776, 769>>>>, <<8164, <<929, 787>>>>,
     <<8166, <<933, 834>>>>, <<8167, <<933, 776, 834>>>>, <<8178, <<8186, 921>>>>,
     <<8179, <<937, 921>>>>, <<8180, <<911, 921>>>>, <<8182, <<937, 834>>>>,
     <<8183, <<937, 834, 921>>>>, <<8188, <<937, 921>>>>, <<64256, <<70, 70>>>>,
     <<64257, <<70, 73>>>>, <<64258, <<70, 76>>>>, <<64259, <<70, 70, 73>>>>,
     <<64260, <<70, 70, 76>>>>, <<64261, <<83, 84>>>>, <<64262, <<83, 84>>>>,
     <<64275, <<1348, 1350>>>>, <<64276, <<1348, 1333>>>>, <<64277, <<1348, 1339>>>>,
     <<64278, <<1358, 1350>>>>, <<64279, <<1348, 1341>>>>}

\* str.lower() of one character, in the same form.

LowerRuns ==
    {<<65, 90, 1, 32>>, <<192, 214, 1, 32>>, <<216, 222, 1, 32>>, <<256, 302, 2, 1>>,
     <<306, 310, 2, 1>>, <<313, 327, 2, 1>>, <<330, 374, 2, 1>>, <<376, 376, 1, -121>>,
     <<377, 381, 2, 1>>, <<385, 385, 1, 210>>, <<386, 388, 2, 1>>, <<390, 390, 1, 206>>,
     <<391, 391, 1, 1>>, <<393, 394, 1, 205>>, <<395, 395, 1, 1>>, <<398, 398, 1, 79>>,
     <<399, 399, 1, 202>>, <<400, 400, 1, 203>>, <<401, 401, 1, 1>>, <<403, 403, 1, 205>>,
     <<404, 404, 1, 207>>, <<406, 406, 1, 211>>, <<407, 407, 1, 209>>, <<408, 408, 1, 1>>,
     <<412, 412, 1, 211>>, <<413, 413, 1, 213>>, <<415, 415, 1, 214>>, <<416, 420, 2, 1>>,
     <<422, 422, 1, 218>>, <<423, 423, 1, 1>>, <<425, 425, 1, 218>>, <<428, 428, 1, 1>>,
     <<430, 430, 1, 218>>, <<431, 431, 1, 1>>, <<433, 434, 1, 217>>, <<435, 437, 2, 1>>,
     <<439, 439, 1, 219>>, <<440, 440, 1, 1>>, <<444, 444, 1, 1>>, <<452, 452, 1, 2>>,
     <<453, 453, 1, 1>>, <<455, 455, 1, 2>>, <<456, 456, 1, 1>>, <<458, 458, 1, 2>>,
     <<459, 475, 2, 1>>, <<478, 494, 2, 1>>, <<497, 497, 1, 2>>, <<498, 500, 2, 1>>,
     <<502, 502, 1, -97>>, <<503, 503, 1, -56>>, <<504, 542, 2, 1>>, <<544, 544, 1, -130>>,
     <<546, 562, 2, 1>>, <<570, 570, 1, 10795>>, <<571, 571, 1, 1>>, <<573, 573, 1, -163>>,
     <<574, 574, 1, 10792>>, <<577, 577, 1, 1>>, <<579, 579, 1, -195>>, <<580, 580, 1, 69>>,
     <<581, 581, 1, 71>>, <<582, 590, 2, 1>>, <<880, 882, 2, 1>>, <<886, 886, 1, 1>>,
     <<895, 895, 1, 116>>, <<902, 902, 1, 38>>, <<904, 906, 1, 37>>, <<908, 908, 1, 64>>,
     <<910, 911, 1, 63>>, <<913, 929, 1, 32>>, <<931, 939, 1, 32>>, <<975, 975, 1, 8>>,
     <<984, 1006, 2, 1>>, <<1012, 1012, 1, -60>>, <<1015, 1015, 1, 1>>, <<1017, 1017, 1, -7>>,
     <<1018, 1018, 1, 1>>, <<1021, 1023, 1, -130>>, <<1024, 1039, 1, 80>>,
     <<1040, 1071, 1, 32>>, <<1120, 1152, 2, 1>>, <<1162, 1214, 2, 1>>, <<1216, 1216, 1, 15>>,
     <<1217, 1229, 2, 1>>, <<1232, 1326, 2, 1>>, <<1329, 1366, 1, 48>>, <<4256, 4293, 1, 7264>>,
     <<4295, 4295, 1, 7264>>, <<4301, 4301, 1, 7264>>, <<5024, 5103, 1, 38864>>,
     <<5104, 5109, 1, 8>>, <<7312, 7354, 1, -3008>>, <<7357, 7359, 1, -3008>>,
     <<7680, 7828, 2, 1>>, <<7838, 7838, 1, -7615>>, <<7840, 7934, 2, 1>>,
     <<7944, 7951, 1, -8>>, <<7960, 7965, 1, -8>>, <<7976, 7983, 1, -8>>, <<7992, 7999, 1, -8>>,
     <<8008, 8013, 1, -8>>, <<8025, 8031, 2, -8>>, <<8040, 8047, 1, -8>>, <<8072, 8079, 1, -8>>,
     <<8088, 8095, 1, -8>>, <<8104, 8111, 1, -8>>, <<8120, 8121, 1, -8>>,
     <<8122, 8123, 1, -74>>, <<8124, 8124, 1, -9>>, <<8136, 8139, 1, -86>>,
     <<8140, 8140, 1, -9>>, <<8152, 8153, 1, -8>>, <<8154, 8155, 1, -100>>,
     <<8168, 8169, 1, -8>>, <<8170, 8171, 1, -112>>, <<8172, 8172, 1, -7>>,
     <<8184, 8185, 1, -128>>, <<8186, 8187, 1, -126>>, <<8188, 8188, 1, -9>>,
     <<8486, 8486, 1, -7517>>, <<8490, 8490, 1, -8383>>, <<8491, 8491, 1, -8262>>,
     <<8498, 8498, 1, 28>>, <<8544, 8559, 1, 16>>, <<8579, 8579, 1, 1>>, <<9398, 9423, 1, 26>>,
     <<11264, 11311, 1, 48>>, <<11360, 11360, 1, 1>>, <<11362, 11362, 1, -10743>>,
     <<11363, 11363, 1, -3814>>, <<11364, 11364, 1, -10727>>, <<11367, 11371, 2, 1>>,
     <<11373, 11373, 1, -10780>>, <<11374, 11374, 1, -10749>>, <<11375, 11375, 1, -10783>>,
     <<11376, 11376, 1, -10782>>, <<11378, 11378, 1, 1>>, <<11381, 11381, 1, 1>>,
     <<11390, 11391, 1, -10815>>, <<11392, 11490, 2, 1>>, <<11499, 11501, 2, 1>>,
     <<11506, 11506, 1, 1>>, <<42560, 42604, 2, 1>>, <<42624, 42650, 2, 1>>,
     <<42786, 42798, 2, 1>>, <<42802, 42862, 2, 1>>, <<42873, 42875, 2, 1>>,
     <<42877, 42877, 1, -35332>>, <<42878, 42886, 2, 1>>, <<42891, 42891, 1, 1>>,
     <<42893, 42893, 1, -42280>>, <<42896, 42898, 2, 1>>, <<42902, 42920, 2, 1>>,
     <<42922, 42922, 1, -42308>>, <<42923, 42923, 1, -42319>>, <<42924, 42924, 1, -42315>>,
     <<42925, 42925, 1, -42305>>, <<42926, 42926, 1, -42308>>, <<42928, 42928, 1, -42258>>,
     <<42929, 42929, 1, -42282>>, <<42930, 42930, 1, -42261>>, <<42931, 42931, 1, 928>>,
     <<42932, 42946, 2, 1>>, <<42948, 42948, 1, -48>>, <<42949, 42949, 1, -42307>>,
     <<42950, 42950, 1, -35384>>, <<42951, 42953, 2, 1>>, <<42960, 42960, 1, 1>>,
     <<42966, 42968, 2, 1>>, <<42997, 42997, 1, 1>>, <<65313, 65338, 1, 32>>}

LowerSpecial ==
    {<<304, <<105, 775>>>>}

\* The cased characters that are not case-ignorable, and the case-ignorable
\* ones, as ranges <<first, last>>: what str.lower() looks at around a capital
\* sigma.

Cased ==
    {<<65, 90>>, <<97, 122>>, <<170, 170>>, <<181, 181>>, <<186, 186>>, <<192, 214>>,
     <<216, 246>>, <<248, 442>>, <<444, 447>>, <<452, 659>>, <<661, 687>>, <<880, 883>>,
     <<886, 887>>, <<891, 893>>, <<895, 895>>, <<902, 902>>, <<904, 906>>, <<908, 908>>,
     <<910, 929>>, <<931, 1013>>, <<1015, 1153>>, <<1162, 1327>>, <<1329, 1366>>,
     <<1376, 1416>>, <<4256, 4293>>, <<4295, 4295>>, <<4301, 4301>>, <<4304, 4346>>,
     <<4349, 4351>>, <<5024, 5109>>, <<5112, 5117>>, <<7296, 7304>>, <<7312, 7354>>,
     <<7357, 7359>>, <<7424, 7467>>, <<7531, 7543>>, <<7545, 7578>>, <<7680, 7957>>,
     <<7960, 7965>>, <<7968, 8005>>, <<8008, 8013>>, <<8016, 8023>>, <<8025, 8025>>,
     <<8027, 8027>>, <<8029, 8029>>, <<8031, 8061>>, <<8064, 8116>>, <<8118, 8124>>,
     <<8126, 8126>>, <<8130, 8132>>, <<8134, 8140>>, <<8144, 8147>>, <<8150, 8155>>,
     <<8160, 8172>>, <<8178, 8180>>, <<8182, 8188>>, <<8450, 8450>>, <<8455, 8455>>,
     <<8458, 8467>>, <<8469, 8469>>, <<8473, 8477>>, <<8484, 8484>>, <<8486, 8486>>,
     <<8488, 8488>>, <<8490, 8493>>, <<8495, 8500>>, <<8505, 8505>>, <<8508, 8511>>,
     <<8517, 8521>>, <<8526, 8526>>, <<8544, 8575>>, <<8579, 8580>>, <<9398, 9449>>,
     <<11264, 11387>>, <<11390, 11492>>, <<11499, 11502>>, <<11506, 11507>>, <<11520, 11557>>,
     <<11559, 11559>>, <<11565, 11565>>, <<42560, 42605>>, <<42624, 42651>>, <<42786, 42863>>,
     <<42865, 42887>>, <<42891, 42894>>, <<42896, 42954>>, <<42960, 42961>>, <<42963, 42963>>,
     <<42965, 42969>>, <<42997, 42998>>, <<43002, 43002>>, <<43824, 43866>>, <<43872, 43880>>,
     <<43888, 43967>>, <<64256, 64262>>, <<64275, 64279>>, <<65313, 65338>>, <<65345, 65370>>}

CaseIgnorable ==
    {<<39, 39>>, <<46, 46>>, <<58, 58>>, <<94, 94>>, <<96, 96>>, <<168, 168>>, <<173, 173>>,
     <<175, 175>>, <<180, 180>>, <<183, 184>>, <<688, 879>>, <<884, 885>>, <<890, 890>>,
     <<900, 901>>, <<903, 903>>, <<1155, 1161>>, <<1369, 1369>>, <<1375, 1375>>, <<1425, 1469>>,
     <<1471, 1471>>, <<1473, 1474>>, <<1476, 1477>>, <<1479, 1479>>, <<1524, 1524>>,
     <<1536, 1541>>, <<1552, 1562>>, <<1564, 1564>>, <<1600, 1600>>, <<1611, 1631>>,
     <<1648, 1648>>, <<1750, 1757>>, <<1759, 1768>>, <<1770, 1773>>, <<1807, 1807>>,
     <<1809, 1809>>, <<1840, 1866>>, <<1958, 1968>>, <<2027, 2037>>, <<2042, 2042>>,
     <<2045, 2045>>, <<2070, 2093>>, <<2137, 2139>>, <<2184, 2184>>, <<2192, 2193>>,
     <<2200, 2207>>, <<2249, 2306>>, <<2362, 2362>>, <<2364, 2364>>, <<2369, 2376>>,
     <<2381, 2381>>, <<2385, 2391>>, <<2402, 2403>>, <<2417, 2417>>, <<2433, 2433>>,
     <<2492, 2492>>, <<2497, 2500>>, <<2509, 2509>>, <<2530, 2531>>, <<2558, 2558>>,
     <<2561, 2562>>, <<2620, 2620>>, <<2625, 2626>>, <<2631, 2632>>, <<2635, 2637>>,
     <<2641, 2641>>, <<2672, 2673>>, <<2677, 2677>>, <<2689, 2690>>, <<2748, 2748>>,
     <<2753, 2757>>, <<2759, 2760>>, <<2765, 2765>>, <<2786, 2787>>, <<2810, 2815>>,
     <<2817, 2817>>, <<2876, 2876>>, <<2879, 2879>>, <<2881, 2884>>, <<2893, 2893>>,
     <<2901, 2902>>, <<2914, 2915>>, <<2946, 2946>>, <<3008, 3008>>, <<3021, 3021>>,
     <<3072, 3072>>, <<3076, 3076>>, <<3132, 3132>>, <<3134, 3136>>, <<3142, 3144>>,
     <<3146, 3149>>, <<3157, 3158>>, <<3170, 3171>>, <<3201, 3201>>, <<3260, 3260>>,
     <<3263, 3263>>, <<3270, 3270>>, <<3276, 3277>>, <<3298, 3299>>, <<3328, 3329>>,
     <<3387, 3388>>, <<3393, 3396>>, <<3405, 3405>>, <<3426, 3427>>, <<3457, 3457>>,
     <<3530, 3530>>, <<3538, 3540>>, <<3542, 3542>>, <<3633, 3633>>, <<3636, 3642>>,
     <<3654, 3662>>, <<3761, 3761>>, <<3764, 3772>>, <<3782, 3782>>, <<3784, 3789>>,
     <<3864, 3865>>, <<3893, 3893>>, <<3895, 3895>>, <<3897, 3897>>, <<3953, 3966>>,
     <<3968, 3972>>, <<3974, 3975>>, <<3981, 3991>>, <<3993, 4028>>, <<4038, 4038>>,
     <<4141, 4144>>, <<4146, 4151>>, <<4153, 4154>>, <<4157, 4158>>, <<4184, 4185>>,
     <<4190, 4192>>, <<4209, 4212>>, <<4226, 4226>>, <<4229, 4230>>, <<4237, 4237>>,
     <<4253, 4253>>, <<4348, 4348>>, <<4957, 4959>>, <<5906, 5908>>, <<5938, 5939>>,
     <<5970, 5971>>, <<6002, 6003>>, <<6068, 6069>>, <<6071, 6077>>, <<6086, 6086>>,
     <<6089, 6099>>, <<6103, 6103>>, <<6109, 6109>>, <<6155, 6159>>, <<6211, 6211>>,
     <<6277, 6278>>, <<6313, 6313>>, <<6432, 6434>>, <<6439, 6440>>, <<6450, 6450>>,
     <<6457, 6459>>, <<6679, 6680>>, <<6683, 6683>>, <<6742, 6742>>, <<6744, 6750>>,
     <<6752, 6752>>, <<6754, 6754>>, <<6757, 6764>>, <<6771, 6780>>, <<6783, 6783>>,
     <<6823, 6823>>, <<6832, 6862>>, <<6912, 6915>>, <<6964, 6964>>, <<6966, 6970>>,
     <<6972, 6972>>, <<6978, 6978>>, <<7019, 7027>>, <<7040, 7041>>, <<7074, 7077>>,
     <<7080, 7081>>, <<7083, 7085>>, <<7142, 7142>>, <<7144, 7145>>, <<7149, 7149>>,
     <<7151, 7153>>, <<7212, 7219>>, <<7222, 7223>>, <<7288, 7293>>, <<7376, 7378>>,
     <<7380, 7392>>, <<7394, 7400>>, <<7405, 7405>>, <<7412, 7412>>, <<7416, 7417>>,
     <<7468, 7530>>, <<7544, 7544>>, <<7579, 7679>>, <<8125, 8125>>, <<8127, 8129>>,
     <<8141, 8143>>, <<8157, 8159>>, <<8173, 8175>>, <<8189, 8190>>, <<8203, 8207>>,
     <<8216, 8217>>, <<8228, 8228>>, <<8231, 8231>>, <<8234, 8238>>, <<8288, 8292>>,
     <<8294, 8303>>, <<8305, 8305>>, <<8319, 8319>>, <<8336, 8348>>, <<8400, 8432>>,
     <<11388, 11389>>, <<11503, 11505>>, <<11631, 11631>>, <<11647, 11647>>, <<11744, 11775>>,
     <<11823, 11823>>, <<12293, 12293>>, <<12330, 12333>>, <<12337, 12341>>, <<12347, 12347>>,
     <<12441, 12446>>, <<12540, 12542>>, <<40981, 40981>>, <<42232, 42237>>, <<42508, 42508>>,
     <<42607, 42610>>, <<42612, 42621>>, <<42623, 42623>>, <<42652, 42655>>, <<42736, 42737>>,
     <<42752, 42785>>, <<42864, 42864>>, <<42888, 42890>>, <<42994, 42996>>, <<43000, 43001>>,
     <<43010, 43010>>, <<43014, 43014>>, <<43019, 43019>>, <<43045, 43046>>, <<43052, 43052>>,
     <<43204, 43205>>, <<43232, 43249>>, <<43263, 43263>>, <<43302, 43309>>, <<43335, 43345>>,
     <<43392, 43394>>, <<43443, 43443>>, <<43446, 43449>>, <<43452, 43453>>, <<43471, 43471>>,
     <<43493, 43494>>, <<43561, 43566>>, <<43569, 43570>>, <<43573, 43574>>, <<43587, 43587>>,
     <<43596, 43596>>, <<43632, 43632>>, <<43644, 43644>>, <<43696, 43696>>, <<43698, 43700>>,
     <<43703, 43704>>, <<43710, 43711>>, <<43713, 43713>>, <<43741, 43741>>, <<43756, 43757>>,
     <<43763, 43764>>, <<43766, 43766>>, <<43867, 43871>>, <<43881, 43883>>, <<44005, 44005>>,
     <<44008, 44008>>, <<44013, 44013>>, <<64286, 64286>>, <<64434, 64450>>, <<65024, 65039>>,
     <<65043, 65043>>, <<65056, 65071>>, <<65106, 65106>>, <<65109, 65109>>, <<65279, 65279>>,
     <<65287, 65287>>, <<65294, 65294>>, <<65306, 65306>>, <<65342, 65342>>, <<65344, 65344>>,
     <<65392, 65392>>, <<65438, 65439>>, <<65507, 65507>>, <<65529, 65531>>}

\* One character of str.upper() and of str.lower(), n being its code point.
CaseOf(c, n, runs, special) ==
    IF Several(n, special) # {} THEN CharsOf((CHOOSE r \in Several(n, special) : TRUE)[2])
    ELSE IF Mapped(n, runs) # {} THEN T(chr(n + (CHOOSE r \in Mapped(n, runs) : TRUE)[4]))
    ELSE T(c)
UpperOf(c) == CaseOf(c, ord(c), UpperRuns, UpperSpecial)
LowerOf(c) == CaseOf(c, ord(c), LowerRuns, LowerSpecial)

\* str.lower() turns a capital sigma into the final sigma when a cased
\* character precedes it and none follows it, case-ignorable characters
\* between them aside.
NotIgnorable(text, from, to) ==
    {j \in from .. to : ~InRanges(ord(text[j]), CaseIgnorable)}
Last(S) == CHOOSE j \in S : \A k \in S : k <= j
First(S) == CHOOSE j \in S : \A k \in S : j <= k
FinalSigma(text, i, before, after) ==
    /\ text[i] = "U+03A3"
    /\ before # {}
    /\ InRanges(ord(text[Last(before)]), Cased)
    /\ after = {} \/ ~InRanges(ord(text[First(after)]), Cased)

\* str.upper(), str.lower()
RECURSIVE upper(_)
upper(text) == IF Len(text) = 0 THEN <<>> ELSE UpperOf(Head(text)) \o upper(Tail(text))
RECURSIVE LowerFrom(_, _)
LowerFrom(text, i) ==
    IF i > Len(text) THEN <<>>
    ELSE (IF FinalSigma(text, i, NotIgnorable(text, 1, i - 1), NotIgnorable(text, i + 1, Len(text)))
          THEN T("U+03C2") ELSE LowerOf(text[i]))
         \o LowerFrom(text, i + 1)
lower(text) == LowerFrom(text, 1)

\* str(n)
RECURSIVE IntText(_)
IntText(n) ==
    IF n < 0 THEN T("-") \o IntText(0 - n)
    ELSE IF n < 10 THEN T(Digits[n + 1])
    ELSE IntText(n \div 10) \o T(Digits[(n % 10) + 1])

\* The text of a key given as a string of characters written as themselves.
KeyText(k) == Chars(k)

\* json.dumps of a string, ensure_ascii being on: the quote, the backslash and
\* every character outside U+0020..U+007E are escaped.
JsonChar(c) ==
    LET n == ord(c)
    IN IF c = "\"" \/ c = "\\" THEN <<"\\", c>>
       ELSE IF n = 10 THEN <<"\\", "n">>
       ELSE IF n = 13 THEN <<"\\", "r">>
       ELSE IF n = 9 THEN <<"\\", "t">>
       ELSE IF n = 12 THEN <<"\\", "f">>
       ELSE IF n = 8 THEN <<"\\", "b">>
       ELSE IF n \in 32 .. 126 THEN T(c)
       ELSE <<"\\", "u">> \o Hex(n, 4, HexLower)
RECURSIVE Escaped(_)
Escaped(text) ==
    IF Len(text) = 0 THEN <<>> ELSE JsonChar(Head(text)) \o Escaped(Tail(text))

\* repr of a string: in single quotes, or in double quotes when it holds a
\* single quote and no double one; the backslash, the quote in use and the
\* characters that are not printable are escaped.
\* The characters str.isprintable() is false of, as ranges <<first, last>>.

NotPrintable ==
    {<<0, 31>>, <<127, 160>>, <<173, 173>>, <<888, 889>>, <<896, 899>>, <<907, 907>>,
     <<909, 909>>, <<930, 930>>, <<1328, 1328>>, <<1367, 1368>>, <<1419, 1420>>, <<1424, 1424>>,
     <<1480, 1487>>, <<1515, 1518>>, <<1525, 1541>>, <<1564, 1564>>, <<1757, 1757>>,
     <<1806, 1807>>, <<1867, 1868>>, <<1970, 1983>>, <<2043, 2044>>, <<2094, 2095>>,
     <<2111, 2111>>, <<2140, 2141>>, <<2143, 2143>>, <<2155, 2159>>, <<2191, 2199>>,
     <<2274, 2274>>, <<2436, 2436>>, <<2445, 2446>>, <<2449, 2450>>, <<2473, 2473>>,
     <<2481, 2481>>, <<2483, 2485>>, <<2490, 2491>>, <<2501, 2502>>, <<2505, 2506>>,
     <<2511, 2518>>, <<2520, 2523>>, <<2526, 2526>>, <<2532, 2533>>, <<2559, 2560>>,
     <<2564, 2564>>, <<2571, 2574>>, <<2577, 2578>>, <<2601, 2601>>, <<2609, 2609>>,
     <<2612, 2612>>, <<2615, 2615>>, <<2618, 2619>>, <<2621, 2621>>, <<2627, 2630>>,
     <<2633, 2634>>, <<2638, 2640>>, <<2642, 2648>>, <<2653, 2653>>, <<2655, 2661>>,
     <<2679, 2688>>, <<2692, 2692>>, <<2702, 2702>>, <<2706, 2706>>, <<2729, 2729>>,
     <<2737, 2737>>, <<2740, 2740>>, <<2746, 2747>>, <<2758, 2758>>, <<2762, 2762>>,
     <<2766, 2767>>, <<2769, 2783>>, <<2788, 2789>>, <<2802, 2808>>, <<2816, 2816>>,
     <<2820, 2820>>, <<2829, 2830>>, <<2833, 2834>>, <<2857, 2857>>, <<2865, 2865>>,
     <<2868, 2868>>, <<2874, 2875>>, <<2885, 2886>>, <<2889, 2890>>, <<2894, 2900>>,
     <<2904, 2907>>, <<2910, 2910>>, <<2916, 2917>>, <<2936, 2945>>, <<2948, 2948>>,
     <<2955, 2957>>, <<2961, 2961>>, <<2966, 2968>>, <<2971, 2971>>, <<2973, 2973>>,
     <<2976, 2978>>, <<2981, 2983>>, <<2987, 2989>>, <<3002, 3005>>, <<3011, 3013>>,
     <<3017, 3017>>, <<3022, 3023>>, <<3025, 3030>>, <<3032, 3045>>, <<3067, 3071>>,
     <<3085, 3085>>, <<3089, 3089>>, <<3113, 3113>>, <<3130, 3131>>, <<3141, 3141>>,
     <<3145, 3145>>, <<3150, 3156>>, <<3159, 3159>>, <<3163, 3164>>, <<3166, 3167>>,
     <<3172, 3173>>, <<3184, 3190>>, <<3213, 3213>>, <<3217, 3217>>, <<3241, 3241>>,
     <<3252, 3252>>, <<3258, 3259>>, <<3269, 3269>>, <<3273, 3273>>, <<3278, 3284>>,
     <<3287, 3292>>, <<3295, 3295>>, <<3300, 3301>>, <<3312, 3312>>, <<3315, 3327>>,
     <<3341, 3341>>, <<3345, 3345>>, <<3397, 3397>>, <<3401, 3401>>, <<3408, 3411>>,
     <<3428, 3429>>, <<3456, 3456>>, <<3460, 3460>>, <<3479, 3481>>, <<3506, 3506>>,
     <<3516, 3516>>, <<3518, 3519>>, <<3527, 3529>>, <<3531, 3534>>, <<3541, 3541>>,
     <<3543, 3543>>, <<3552, 3557>>, <<3568, 3569>>, <<3573, 3584>>, <<3643, 3646>>,
     <<3676, 3712>>, <<3715, 3715>>, <<3717, 3717>>, <<3723, 3723>>, <<3748, 3748>>,
     <<3750, 3750>>, <<3774, 3775>>, <<3781, 3781>>, <<3783, 3783>>, <<3790, 3791>>,
     <<3802, 3803>>, <<3808, 3839>>, <<3912, 3912>>, <<3949, 3952>>, <<3992, 3992>>,
     <<4029, 4029>>, <<4045, 4045>>, <<4059, 4095>>, <<4294, 4294>>, <<4296, 4300>>,
     <<4302, 4303>>, <<4681, 4681>>, <<4686, 4687>>, <<4695, 4695>>, <<4697, 4697>>,
     <<4702, 4703>>, <<4745, 4745>>, <<4750, 4751>>, <<4785, 4785>>, <<4790, 4791>>,
     <<4799, 4799>>, <<4801, 4801>>, <<4806, 4807>>, <<4823, 4823>>, <<4881, 4881>>,
     <<4886, 4887>>, <<4955, 4956>>, <<4989, 4991>>, <<5018, 5023>>, <<5110, 5111>>,
     <<5118, 5119>>, <<5760, 5760>>, <<5789, 5791>>, <<5881, 5887>>, <<5910, 5918>>,
     <<5943, 5951>>, <<5972, 5983>>, <<5997, 5997>>, <<6001, 6001>>, <<6004, 6015>>,
     <<6110, 6111>>, <<6122, 6127>>, <<6138, 6143>>, <<6158, 6158>>, <<6170, 6175>>,
     <<6265, 6271>>, <<6315, 6319>>, <<6390, 6399>>, <<6431, 6431>>, <<6444, 6447>>,
     <<6460, 6463>>, <<6465, 6467>>, <<6510, 6511>>, <<6517, 6527>>, <<6572, 6575>>,
     <<6602, 6607>>, <<6619, 6621>>, <<6684, 6685>>, <<6751, 6751>>, <<6781, 6782>>,
     <<6794, 6799>>, <<6810, 6815>>, <<6830, 6831>>, <<6863, 6911>>, <<6989, 6991>>,
     <<7039, 7039>>, <<7156, 7163>>, <<7224, 7226>>, <<7242, 7244>>, <<7305, 7311>>,
     <<7355, 7356>>, <<7368, 7375>>, <<7419, 7423>>, <<7958, 7959>>, <<7966, 7967>>,
     <<8006, 8007>>, <<8014, 8015>>, <<8024, 8024>>, <<8026, 8026>>, <<8028, 8028>>,
     <<8030, 8030>>, <<8062, 8063>>, <<8117, 8117>>, <<8133, 8133>>, <<8148, 8149>>,
     <<8156, 8156>>, <<8176, 8177>>, <<8181, 8181>>, <<8191, 8207>>, <<8232, 8239>>,
     <<8287, 8303>>, <<8306, 8307>>, <<8335, 8335>>, <<8349, 8351>>, <<8385, 8399>>,
     <<8433, 8447>>, <<8588, 8591>>, <<9255, 9279>>, <<9291, 9311>>, <<11124, 11125>>,
     <<11158, 11158>>, <<11508, 11512>>, <<11558, 11558>>, <<11560, 11564>>, <<11566, 11567>>,
     <<11624, 11630>>, <<11633, 11646>>, <<11671, 11679>>, <<11687, 11687>>, <<11695, 11695>>,
     <<11703, 11703>>, <<11711, 11711>>, <<11719, 11719>>, <<11727, 11727>>, <<11735, 11735>>,
     <<11743, 11743>>, <<11870, 11903>>, <<11930, 11930>>, <<12020, 12031>>, <<12246, 12271>>,
     <<12284, 12288>>, <<12352, 12352>>, <<12439, 12440>>, <<12544, 12548>>, <<12592, 12592>>,
     <<12687, 12687>>, <<12772, 12783>>, <<12831, 12831>>, <<42125, 42127>>, <<42183, 42191>>,
     <<42540, 42559>>, <<42744, 42751>>, <<42955, 42959>>, <<42962, 42962>>, <<42964, 42964>>,
     <<42970, 42993>>, <<43053, 43055>>, <<43066, 43071>>, <<43128, 43135>>, <<43206, 43213>>,
     <<43226, 43231>>, <<43348, 43358>>, <<43389, 43391>>, <<43470, 43470>>, <<43482, 43485>>,
     <<43519, 43519>>, <<43575, 43583>>, <<43598, 43599>>, <<43610, 43611>>, <<43715, 43738>>,
     <<43767, 43776>>, <<43783, 43784>>, <<43791, 43792>>, <<43799, 43807>>, <<43815, 43815>>,
     <<43823, 43823>>, <<43884, 43887>>, <<44014, 44015>>, <<44026, 44031>>, <<55204, 55215>>,
     <<55239, 55242>>, <<55292, 63743>>, <<64110, 64111>>, <<64218, 64255>>,
     <<64263, 64274>>, <<64280, 64284>>, <<64311, 64311>>, <<64317, 64317>>, <<64319, 64319>>,
     <<64322, 64322>>, <<64325, 64325>>, <<64451, 64466>>, <<64912, 64913>>, <<64968, 64974>>,
     <<64976, 65007>>, <<65050, 65055>>, <<65107, 65107>>, <<65127, 65127>>, <<65132, 65135>>,
     <<65141, 65141>>, <<65277, 65280>>, <<65471, 65473>>, <<65480, 65481>>, <<65488, 65489>>,
     <<65496, 65497>>, <<65501, 65503>>, <<65511, 65511>>, <<65519, 65531>>, <<65534, 65535>>}
isprintable(c) == ~InRanges(ord(c), NotPrintable)
ReprChar(c, quote) ==
    LET n == ord(c)
    IN IF c = "\\" \/ c = quote THEN <<"\\", c>>
       ELSE IF n = 9 THEN <<"\\", "t">>
       ELSE IF n = 10 THEN <<"\\", "n">>
       ELSE IF n = 13 THEN <<"\\", "r">>
       ELSE IF isprintable(c) THEN T(c)
       ELSE IF n < 256 THEN <<"\\", "x">> \o Hex(n, 2, HexLower)
       ELSE <<"\\", "u">> \o Hex(n, 4, HexLower)
RECURSIVE ReprChars(_, _)
ReprChars(text, quote) ==
    IF Len(text) = 0 THEN <<>>
    ELSE ReprChar(Head(text), quote) \o ReprChars(Tail(text), quote)
Repr(text) ==
    LET quote == IF Occurs(text, "'") /\ ~Occurs(text, "\"") THEN "\"" ELSE "'"
    IN T(quote) \o ReprChars(text, quote) \o T(quote)

\* json.dumps(value) and str(value) (repr for containers); they differ in the
\* strings, in None and in the booleans.
RECURSIVE Dumps(_, _)
RECURSIVE DumpItems(_, _, _, _)
Dumps(value, json) ==
    CASE value.t = "NoneType" -> IF json THEN <<"n", "u", "l", "l">> ELSE <<"N", "o", "n", "e">>
      [] value.t = "bool" ->
            IF json THEN (IF value.v THEN <<"t", "r", "u", "e">> ELSE <<"f", "a", "l", "s", "e">>)
            ELSE (IF value.v THEN <<"T", "r", "u", "e">> ELSE <<"F", "a", "l", "s", "e">>)
      [] value.t = "int" -> IntText(value.v)
      [] value.t = "str" ->
            IF json THEN T("\"") \o Escaped(value.v) \o T("\"") ELSE Repr(value.v)
      [] value.t = "list" -> T("[") \o DumpItems(value, 1, json, <<>>) \o T("]")
      [] value.t = "dict" -> T("{") \o DumpItems(value, 1, json, <<>>) \o T("}")
DumpItems(value, i, json, acc) ==
    IF i > Len(value.v) THEN acc
    ELSE LET sep == IF i > 1 THEN <<",", " ">> ELSE <<>>
             item == IF value.t = "dict"
                     THEN Dumps(VStr(value.v[i].k), json) \o <<":", " ">>
                          \o Dumps(value.v[i].v, json)
                     ELSE Dumps(value.v[i], json)
         IN DumpItems(value, i + 1, json, acc \o sep \o item)

\* str(value)
PyStr(value) == IF value.t = "str" THEN value.v ELSE Dumps(value, FALSE)

\* re.match(r"default\(['\"](.+?)['\"]\)", filter_name) (line 117): the
\* shortest literal of at least one character, none of them a line feed,
\* that a quote and ")" follow.
IsQuote(c) == c \in {"'", "\""}
default_match(filter_name) ==
    LET n == Len(filter_name)
        ends == {k \in 1 .. n - 11 :
                    /\ IsQuote(filter_name[10 + k])
                    /\ filter_name[11 + k] = ")"
                    /\ \A j \in 10 .. 9 + k : filter_name[j] # "\n"}
    IN IF /\ n >= 12
          /\ SubSeq(filter_name, 1, 8) = <<"d", "e", "f", "a", "u", "l", "t", "(">>
          /\ IsQuote(filter_name[9])
          /\ ends # {}
       THEN LET k == CHOOSE e \in ends : \A o \in ends : e <= o
            IN [matched |-> TRUE, group |-> SubSeq(filter_name, 10, 9 + k)]
       ELSE [matched |-> FALSE]

\* _apply_filter (lines 93-139); ApplyNamed is the part after
\* filter_name = filter_expr.strip() (lines 116-139).
ApplyNamed(value, filter_name, name, path) ==
    LET default == default_match(filter_name)
    IN IF default.matched
       THEN Returns(IF value = VNone THEN VStr(default.group) ELSE value)
       ELSE IF name = "upper"
       THEN IF value.t # "str"
            THEN InterpolationError(path, "Filter 'upper' requires string, got " \o value.t)
            ELSE Returns(VStr(upper(value.v)))
       ELSE IF name = "lower"
       THEN IF value.t # "str"
            THEN InterpolationError(path, "Filter 'lower' requires string, got " \o value.t)
            ELSE Returns(VStr(lower(value.v)))
       ELSE IF name = "string"
       THEN Returns(VStr(IF value = VNone THEN <<>> ELSE PyStr(value)))
       ELSE IF name = "json" THEN Returns(value)
       ELSE InterpolationError(path, "Unknown filter: " \o name)
FilterNamed(value, filter_name, path) == ApplyNamed(value, filter_name, Str(filter_name), path)
apply_filter(value, filter_expr, path) == FilterNamed(value, strip(filter_expr), path)

\* --- templates -----------------------------------------------------------------
\* A string template as VARIABLE_PATTERN (line 23) reads it: literal texts and
\* placeholders {{path}} or {{path | filter}}, in order.  filter is the empty
\* text when the placeholder has none.
Lit(text) == [text |-> text, lit |-> TRUE]
Var(path, filter) == [path |-> path, lit |-> FALSE, filter |-> filter]
TStr(segments) == [v |-> segments, t |-> "str"]

\* replace_match (lines 156-177): the path is resolved (161), the filter, if
\* any, applied (164-165), and the value turned into text (168-177).
ValueText(value) ==
    IF value = VNone THEN <<>>
    ELSE IF value.t = "bool" THEN lower(PyStr(value))
    ELSE IF value.t \in {"dict", "list"} THEN Dumps(value, TRUE)
    ELSE PyStr(value)
TextOf(filtered) == IF ~filtered.ok THEN filtered ELSE Returns(ValueText(filtered.value))
Filtered(found, match) ==
    IF ~found.ok THEN found
    ELSE IF Len(match.filter) > 0
    THEN TextOf(apply_filter(found.value, match.filter, match.path))
    ELSE TextOf(found)
replace_match(match, context) == Filtered(resolve_path(context, match.path), match)

\* _interpolate_string (lines 142-179): VARIABLE_PATTERN.sub(replace_match, template)
RECURSIVE SubFrom(_, _, _, _)
RECURSIVE SubNext(_, _, _, _, _)
SubFrom(segments, i, context, acc) ==
    IF i > Len(segments) THEN Returns(VStr(acc))
    ELSE IF segments[i].lit THEN SubFrom(segments, i + 1, context, acc \o segments[i].text)
    ELSE SubNext(segments, i, context, acc, replace_match(segments[i], context))
\* r: what replace_match comes to for the placeholder i
SubNext(segments, i, context, acc, r) ==
    IF ~r.ok THEN r ELSE SubFrom(segments, i + 1, context, acc \o r.value)
interpolate_string(template, context) == SubFrom(template.v, 1, context, <<>>)

\* interpolate (lines 182-222)
RECURSIVE interpolate(_, _)
RECURSIVE InterpolateItems(_, _, _, _)
RECURSIVE ItemsNext(_, _, _, _, _)
interpolate(template, context) ==
    IF template.t = "str" THEN interpolate_string(template, context)
    ELSE IF template.t \in {"dict", "list"} THEN InterpolateItems(template, 1, context, <<>>)
    ELSE Returns(template)
InterpolateItems(template, i, context, acc) ==
    IF i > Len(template.v) THEN Returns([v |-> acc, t |-> template.t])
    ELSE ItemsNext(template, i, context, acc,
                   interpolate(IF template.t = "dict" THEN template.v[i].v ELSE template.v[i],
                               context))
\* r: what interpolate comes to for the item i
ItemsNext(template, i, context, acc, r) ==
    IF ~r.ok THEN r
    ELSE InterpolateItems(template, i + 1, context,
             Append(acc, IF template.t = "dict" THEN DictItem(template.v[i].k, r.value)
                         ELSE r.value))

\* One call of interpolate.
Interpolate(input) ==
    /\ ~interp.called
    /\ interp' = [called |-> TRUE, result |-> interpolate(input.template, input.context),
                  input |-> input]
    /\ UNCHANGED <<deployment, created, workflows, starter, scheduling, polling>>

\* --- inputs ----------------------------------------------------------------------
\* A path as its segments, each a key with or without an index, and the text
\* that is written for it in a placeholder.
Segment(key, index) == [key |-> key, index |-> index]
SegmentText(p) ==
    KeyText(p.key) \o (IF p.index = None THEN <<>>
                       ELSE T("[") \o IntText(Val(p.index)) \o T("]"))
RECURSIVE PathText(_)
PathText(segments) ==
    IF Len(segments) = 1 THEN SegmentText(segments[1])
    ELSE SegmentText(segments[1]) \o T(".") \o PathText(Tail(segments))

\* {"a": {"b": "x", "n": None, "l": ["p", {"m": "q"}], "c": 3, "t": True}, "s": "Hi"}
Context1 ==
    VDict(<< KV("a", VDict(<< KV("b", VStr(T("x"))), KV("n", VNone),
                               KV("l", VList(<< VStr(T("p")),
                                                VDict(<< KV("m", VStr(T("q"))) >>) >>)),
                               KV("c", VInt(3)), KV("t", VBool(TRUE)) >>)),
             KV("s", VStr(<<"H", "i">>)) >>)
\* {"a": None, "l": []}
Context2 == VDict(<< KV("a", VNone), KV("l", VList(<<>>)) >>)
Contexts == {Context1, Context2}
\* {"e": "\u00e9", "ss": "\u00df", "q": "it's", "k": "a\\b", "t": "\t", "n": -1,
\*  "d": {"\u00e9": "\n"}}: strings with cased letters beyond ASCII, quotes, a
\* backslash and control characters, and a negative number.
Context3 ==
    VDict(<< KV("e", VStr(Chars("é"))), KV("ss", VStr(Chars("ß"))),
             KV("q", VStr(Chars("it's"))), KV("k", VStr(Chars("a\\b"))),
             KV("t", VStr(Chars("\t"))), KV("n", VInt(0 - 1)),
             KV("d", VDict(<< KV("é", VStr(Chars("\n"))) >>)) >>)

Segments ==
    {Segment(k, None) : k \in {"a", "b", "n", "l", "m", "z"}}
    \cup {Segment("l", Some(i)) : i \in 0 .. 2}
    \cup {Segment("b", Some(0)), Segment("", Some(0))}
Paths == SeqsUpTo(Segments, MaxParts) \ {<<>>}

\* The templates a path is put in: alone, after a literal and a placeholder
\* that resolves, and in a list in a map after an entry that resolves.
Good == << Segment("a", None), Segment("b", None) >>
Alone(path, filter) == TStr(<< Var(PathText(path), filter) >>)
Second(path, filter) ==
    TStr(<< Lit(<<"x", "=">>), Var(PathText(Good), <<>>), Lit(T(";")),
            Var(PathText(path), filter) >>)
Nested(path, filter) ==
    VDict(<< KV("k", Alone(Good, <<>>)),
             KV("j", VList(<< Alone(path, filter), VInt(1) >>)) >>)
\* written: the text of each placeholder's path, as VARIABLE_PATTERN hands it
\* to _resolve_path.
Input(template, context, paths, filter) ==
    [written |-> [i \in 1 .. Len(paths) |-> PathText(paths[i])], context |-> context,
     filter |-> filter, template |-> template, paths |-> paths]
InputsOf(path, filter, context) ==
    { Input(Alone(path, filter), context, << path >>, filter),
      Input(Second(path, filter), context, << Good, path >>, filter),
      Input(Nested(path, filter), context, << Good, path >>, filter) }

\* Paths written with a line feed inside, which VARIABLE_PATTERN lets through
\* (it trims only the ends): after an index the segment still reads as key and
\* index, inside a key the segment is a plain key.
AsWritten(text, path, context) ==
    [written |-> << Chars(text) >>, context |-> context, filter |-> <<>>,
     template |-> TStr(<< Var(Chars(text), <<>>) >>), paths |-> << path >>]
WrittenInputs ==
    { AsWritten("a.l[1]\n.m",
              << Segment("a", None), Segment("l", Some(1)), Segment("m", None) >>, Context1),
      AsWritten("a.l[2]\n.m",
              << Segment("a", None), Segment("l", Some(2)), Segment("m", None) >>, Context1),
      AsWritten("a\nb[0]", << Segment("a\nb[0]", None) >>, Context1),
      AsWritten("a\n.b", << Segment("a\n", None), Segment("b", None) >>, Context1) }

\* The filters on the values of Context3.
Filters == {Chars("upper"), Chars("lower"), Chars("string"), Chars("json"), Chars("title")}
FilterInputs ==
    {Input(Alone(<< Segment(k, None) >>, filter), Context3, << << Segment(k, None) >> >>, filter) :
        k \in {"e", "ss", "q", "k", "t", "n", "d"}, filter \in Filters \cup {<<>>}}

\* One call in a behaviour, on any of the inputs.
NextInterpolate ==
    /\ ~interp.called
    /\ \/ \E path \in Paths, context \in Contexts :
             \E input \in InputsOf(path, <<>>, context) : Interpolate(input)
       \/ \E input \in WrittenInputs \cup FilterInputs : Interpolate(input)

SpecInterpolate == Init /\ [][NextInterpolate]_vars

\* What a path denotes in a context: walking the segments from the left, the
\* current value must be a map holding the key and, under an index, the value
\* of the key must be a sequence longer than the index.
RECURSIVE Denotes(_, _)
Denotes(current, segments) ==
    IF Len(segments) = 0 THEN [value |-> current, defined |-> TRUE]
    ELSE LET p == segments[1]
         IN IF current.t # "dict" \/ ~Has(current, KeyText(p.key)) THEN [defined |-> FALSE]
            ELSE LET v == Lookup(current, KeyText(p.key))
                 IN IF p.index = None THEN Denotes(v, Tail(segments))
                    ELSE IF v.t # "list" \/ Val(p.index) >= Len(v.v) THEN [defined |-> FALSE]
                    ELSE Denotes(v.v[Val(p.index) + 1], Tail(segments))

Broken(input) ==
    {i \in 1 .. Len(input.paths) : ~Denotes(input.context, input.paths[i]).defined}

\* C25: when the path of a placeholder of the template meets a missing key, a
\* value that is not a map where a key is looked up, a value that is not a
\* sequence under an index, or an index out of range, interpolate raises
\* InterpolationError with the path of such a placeholder and returns nothing;
\* so a call that returns has resolved every placeholder.
C25_UnresolvedPathRaises ==
    interp.called =>
        LET broken == Broken(interp.input)
        IN /\ broken # {} =>
                 /\ ~interp.result.ok
                 /\ DOMAIN interp.result = {"ok", "path", "message"}
                 /\ \E i \in broken :
                       interp.result.path = Str(interp.input.written[i])
           /\ interp.result.ok => broken = {}

\* "x={{a.b}};{{a.l[2]}}": the first placeholder resolves, the index of the
\* second is out of range, and the call raised with the path a.l[2].
C25_Witness ==
    /\ interp.called
    /\ interp.input.context = Context1
    /\ Len(interp.input.paths) = 2
    /\ interp.input.paths[2] = << Segment("a", None), Segment("l", Some(2)) >>
    /\ interp.input.template.t = "str"
    /\ ~interp.result.ok
    /\ interp.result.path = "a.l[2]"

\* --- the default filter ------------------------------------------------------------
\* The filter text default('literal'), and a placeholder that carries it.
DefaultFilter(literal) ==
    <<"d", "e", "f", "a", "u", "l", "t", "(", "'">> \o literal \o <<"'", ")">>
Literals == {<<>>, T("d"), <<"N", "/", "A">>, <<"a", "\n", "b">>}
DefaultInput(path, literal, context) ==
    [written |-> << PathText(path) >>, context |-> context,
     filter |-> DefaultFilter(literal), template |-> Alone(path, DefaultFilter(literal)),
     paths |-> << path >>, literal |-> literal]

\* One call on a placeholder with a default filter.
NextDefault ==
    /\ ~interp.called
    /\ \E path \in SeqsUpTo(Segments, MaxParts - 1) \ {<<>>}, literal \in Literals,
          context \in Contexts :
          Interpolate(DefaultInput(path, literal, context))

SpecDefault == Init /\ [][NextDefault]_vars

\* What the claim says of a call "{{path | default('literal')}}": it raises
\* when the path does not resolve, yields the literal when the path resolves
\* to None, and otherwise what "{{path}}" yields.
DefaultAsClaimed(input, result) ==
    LET d == Denotes(input.context, input.paths[1])
    IN IF ~d.defined THEN ~result.ok
       ELSE IF d.value = VNone THEN result = Returns(VStr(input.literal))
       ELSE result = interpolate(Alone(input.paths[1], <<>>), input.context)

\* C26: default('literal') replaces the resolved value by the literal iff
\* that value is None, leaves any other value as it is, and does not keep an
\* unresolved path from raising.
\* Violated for the empty literal: the pattern of line 117 asks for at least
\* one character between the quotes, so default('') is no default filter and
\* _apply_filter raises "Unknown filter", whether the value is None or not.
\* A literal that holds a line feed is no default filter either ("." does not
\* match it).
C26_DefaultOnlyForNull ==
    interp.called => DefaultAsClaimed(interp.input, interp.result)

\* The part of C26 that holds: literals of at least one character, none of
\* them a line feed.
C26_NonEmptyLiteral ==
    (interp.called /\ Len(interp.input.literal) > 0 /\ ~Occurs(interp.input.literal, "\n")) =>
        DefaultAsClaimed(interp.input, interp.result)

\* "{{a.n | default('a<LF>b')}}" with a.n = None raised.
C26_LineFeedLiteralRaises ==
    /\ interp.called
    /\ interp.input.context = Context1
    /\ interp.input.paths[1] = << Segment("a", None), Segment("n", None) >>
    /\ interp.input.literal = <<"a", "\n", "b">>
    /\ ~interp.result.ok

\* "{{a.b | default('')}}" with a.b = "x" raised.
C26_EmptyLiteralRaises ==
    /\ interp.called
    /\ interp.input.context = Context1
    /\ interp.input.paths[1] = Good
    /\ interp.input.literal = <<>>
    /\ ~interp.result.ok
    /\ interp.result.message = "Unknown filter: default('')"

\* "{{a.n | default('N/A')}}" with a.n = None yielded "N/A".
C26_NullReplaced ==
    /\ interp.called
    /\ interp.input.context = Context1
    /\ interp.input.paths[1] = << Segment("a", None), Segment("n", None) >>
    /\ interp.result = Returns(VStr(<<"N", "/", "A">>))

\* --- failed runs without a failing step index ---------------------------------
\* A failed run whose output gives no failing step index: no output, output
\* that is not JSON, or a context object without step_index.
C27_NoFailingIndex ==
    /\ Handled
    /\ sfn.result.kind = "response"
    /\ sfn.result.resp.status # "SUCCEEDED"
    /\ \/ sfn.result.resp.output.kind \in {"absent", "invalid"}
       \/ /\ sfn.result.resp.output.kind = "object"
          /\ sfn.result.resp.output.step_index = NoIndex

\* The steps the orchestrator's final context has an entry for.
C27_Recorded ==
    IF sfn.result.resp.output.kind = "object"
    THEN DOMAIN sfn.result.resp.output.steps
    ELSE {}

\* C27: a failed run reported without a failing step index is recorded failed
\* with the composed error; every step the final context has no entry for is
\* skipped, every other step is success, and no step is failed.
C27_FallbackClassification ==
    C27_NoFailingIndex =>
        LET steps == CalledRecord.steps
            defs == sfn.workflow.steps
        IN /\ CalledRecord.status = "failed"
           /\ CalledRecord.error = Some(C5_Combined(sfn.result.resp))
           /\ Len(steps) = Len(defs)
           /\ \A n \in 1 .. Len(steps) :
                 /\ steps[n].step_id = defs[n].step_id
                 /\ defs[n].step_id \notin C27_Recorded => steps[n].status = "skipped"
                 /\ defs[n].step_id \in C27_Recorded => steps[n].status = "success"
                 /\ steps[n].status # "failed"

\* Two steps, the context holds the second only: first skipped, second
\* success, the record failed with "error: cause".
C27_Witness ==
    /\ C27_NoFailingIndex
    /\ Len(CalledRecord.steps) = 2
    /\ C27_Recorded = {sfn.workflow.steps[2].step_id}
    /\ CalledRecord.steps[1].status = "skipped"
    /\ CalledRecord.steps[2].status = "success"
    /\ CalledRecord.status = "failed"
    /\ CalledRecord.error = Some("States.TaskFailed: boom")

\* No output at all: every step skipped.
C27_WitnessNoOutput ==
    /\ C27_NoFailingIndex
    /\ sfn.result.resp.output.kind = "absent"
    /\ Len(CalledRecord.steps) = 2
    /\ \A n \in 1 .. 2 : CalledRecord.steps[n].status = "skipped"

\* --- identities in seen_item_ids ----------------------------------------------
NoRepeat(seq) == \A i, j \in 1 .. Len(seq) : seq[i] = seq[j] => i = j

\* C28: the stored seen_item_ids holds no item identity more than once.
\* Violated: poll_feed hands prune_seen_ids every guid of the feed, not the
\* new ones (lines 304-306), and prune_seen_ids concatenates (line 212), so
\* an item still in the feed at the next poll is stored again.
C28_SeenIsSet ==
    \A w \in WfIds : NoRepeat(SeenOf(poll_state[w]))

\* The feed with the single item g1 polled twice with success: nothing new
\* at the second poll, and g1 stored twice.
C28_StoredTwice ==
    /\ Succeeded
    /\ PollsFeed(last_poll.w)
    /\ last_poll.status = "no_changes"
    /\ SeenOf(last_poll.before) = << "g1" >>
    /\ GuidsOf(last_poll.items) = << "g1" >>
    /\ SeenOf(poll_state[last_poll.w]) = << "g1", "g1" >>

\* What does hold: the identities stored are those stored before and those
\* observed, and an identity stored is never reported as new again.
C28_SameIdentities ==
    (Succeeded /\ PollsFeed(last_poll.w)) =>
        /\ IdsIn(SeenOf(poll_state[last_poll.w]))
               = IdsIn(SeenOf(last_poll.before)) \cup IdsIn(GuidsOf(last_poll.items))
        /\ IdsIn(GuidsOf(last_poll.new_items)) \cap IdsIn(SeenOf(last_poll.before)) = {}

\* --- the digest of an HTTP poll -----------------------------------------------
DigestOf(item) == Get(item, "last_content_hash", "")

\* C29: after a successful HTTP poll the stored last_content_hash is the
\* digest of the text just fetched, reported or not; and a poll that finds a
\* stored digest other than that of the text fetched reports one execution,
\* which carries the digest of the text and its first ContentLimit
\* characters. So A, B, A reports at the second and at the third poll.
C29_DigestRefreshed ==
    (Succeeded /\ PollsHttp(last_poll.w)) =>
        /\ HasDigest(poll_state[last_poll.w])
        /\ DigestOf(poll_state[last_poll.w]) = hash_content(last_poll.text)
        /\ (/\ HasDigest(last_poll.before)
            /\ DigestOf(last_poll.before) # hash_content(last_poll.text)) =>
               /\ last_poll.status = "triggered"
               /\ Len(queue) = last_poll.queued + 1
               /\ queue[Len(queue)].workflow_id = last_poll.w
               /\ queue[Len(queue)].trigger_data.content
                      = Prefix(last_poll.text, ContentLimit)
               /\ queue[Len(queue)].trigger_data.content_hash = hash_content(last_poll.text)

\* Three polls in all, the third fetched A over the digest of B, and the queue
\* holds the report of B followed by the report of A: the first poll stored a
\* digest without reporting, the second and the third reported.
C29_Witness ==
    /\ Succeeded
    /\ PollsHttp(last_poll.w)
    /\ last_poll.n = 3
    /\ last_poll.text = "A"
    /\ DigestOf(last_poll.before) = hash_content("B")
    /\ DigestOf(poll_state[last_poll.w]) = hash_content("A")
    /\ Len(queue) = 2
    /\ queue[1].trigger_data.content = "B"
    /\ queue[2].trigger_data.content = "A"

\* A poll that reported nothing and stored the digest all the same: the first.
C29_WitnessUnreported ==
    /\ Succeeded
    /\ PollsHttp(last_poll.w)
    /\ last_poll.status = "no_changes"
    /\ ~HasDigest(last_poll.before)
    /\ last_poll.text = "A"
    /\ DigestOf(poll_state[last_poll.w]) = hash_content("A")

\* --- finished_at and error of an execution record -----------------------------
\* An attribute the item does not have reads as null.
FinishedAt(rec) == Get(rec, "finished_at", None)
ErrorOf(rec) == Get(rec, "error", None)

\* C30: an execution record has a finished_at iff its status is success or
\* failed, and has an error only if its status is failed.
C30_TerminalFields ==
    \A k \in DOMAIN executions :
        /\ FinishedAt(executions[k]) # None <=> executions[k].status \in Terminal
        /\ ErrorOf(executions[k]) # None => executions[k].status = "failed"

\* Two records side by side: one failed with its error and finish time, one
\* still running with neither.
C30_Witness ==
    /\ \E k \in DOMAIN executions :
          /\ executions[k].status = "failed"
          /\ FinishedAt(executions[k]) # None
          /\ ErrorOf(executions[k]) # None
    /\ \E k \in DOMAIN executions :
          /\ executions[k].status = "running"
          /\ FinishedAt(executions[k]) = None
          /\ ErrorOf(executions[k]) = None

\* A failed record next to one that is success with a finish time and no error.
C30_WitnessSuccess ==
    /\ \E k \in DOMAIN executions : executions[k].status = "failed"
    /\ \E k \in DOMAIN executions :
          /\ executions[k].status = "success"
          /\ FinishedAt(executions[k]) # None
          /\ ErrorOf(executions[k]) = None

\* --- the orchestrator call and the record ---------------------------------------
\* The step in which start_sync_execution is called.
C31_Invokes == sfn'.called /\ sfn' # sfn

\* C31: the orchestrator is called for an execution only when its record
\* exists and has been marked running (never absent, never pending), and at
\* most once for a message: no call was made since the message was taken up.
C31_InvokedOnceRunning ==
    [][C31_Invokes =>
          /\ pc = "invoke"
          /\ ~sfn.called
          /\ Key \in DOMAIN executions
          /\ executions[Key].status = "running"
          /\ sfn'.key = Key]_vars

\* While the record of the message in hand is pending, no call has been made
\* for that message.
C31_NotWhilePending ==
    (pc \in {"secrets", "listing", "running", "except"}) =>
        /\ ~sfn.called
        /\ Key \in DOMAIN executions
        /\ executions[Key].status = "pending"

\* The second message of a batch has had its own call, after the first had
\* one: two records, both past running.
C31_Witness ==
    /\ Handled
    /\ Cardinality(DOMAIN executions) = 2
    /\ \A k \in DOMAIN executions : executions[k].status \in Terminal
    /\ sfn.key \in DOMAIN executions
    /\ Len(outcomes) = 2

\* --- no record left pending or running ------------------------------------------
\* The record process_record is working on, if it is working on one.
C32_InHand(k) ==
    pc \in {"secrets", "listing", "running", "invoke", "write", "except"} /\ k = Key

\* C32: every record but the one process_record is still working on is in
\* status success or failed: once process_record has returned or raised, the
\* record it created is terminal, whatever the orchestrator call gave.
C32_NoneLeftOpen ==
    \A k \in DOMAIN executions :
        ~C32_InHand(k) => executions[k].status \in Terminal

\* process_record has just ended with the exception of the orchestrator call,
\* and its record is failed.
C32_Witness ==
    /\ sfn.called
    /\ sfn.result.kind = "raised"
    /\ pc = "record"
    /\ Len(outcomes) > 0
    /\ outcomes[Len(outcomes)] # "ok"
    /\ sfn.key \in DOMAIN executions
    /\ executions[sfn.key].status = "failed"

\* process_record has returned after a response whose handling raised
\* (output that is JSON but no object): failed as well.
C32_WitnessHandlingRaised ==
    /\ sfn.called
    /\ sfn.result.kind = "response"
    /\ sfn.result.resp.output.kind = "nonobject"
    /\ pc = "record"
    /\ executions[sfn.key].status = "failed"

\* --- one new record per delivery ------------------------------------------------
\* The step in which process_record, having accepted the workflow of the
\* message, creates its record.
C33_Creates == pc = "create" /\ pc' = "secrets"

C33_Frame ==
    LET new == DOMAIN executions' \ DOMAIN executions IN
    /\ DOMAIN executions \subseteq DOMAIN executions'
    /\ C33_Creates =>
          /\ Cardinality(new) = 1
          /\ \A k \in new : /\ k[1] = event[idx].workflow_id
                            /\ executions'[k].status = "pending"
          /\ \A k \in DOMAIN executions : executions'[k] = executions[k]
    /\ ~C33_Creates => new = {}
    /\ \A k \in DOMAIN executions :
          executions'[k] # executions[k] => C32_InHand(k)

\* C33: a delivery whose workflow passes validation creates exactly one
\* record, under a key no record has, and leaves every existing record as it
\* is; a record is only ever changed by the delivery that created it, so a
\* redelivery never touches the record of an earlier delivery.
C33_OneNewRecord == [][C33_Frame]_vars

\* The same message, carrying an identifier, delivered twice in one batch:
\* two records of the workflow, the first terminal, the second just created.
C33_Witness ==
    /\ Len(event) = 2
    /\ event[1] = event[2]
    /\ event[1].kind = "json"
    /\ event[1].execution_id # None
    /\ idx = 2
    /\ pc = "secrets"
    /\ Cardinality({k \in DOMAIN executions : k[1] = event[1].workflow_id}) = 2
    /\ \E k \in DOMAIN executions : k # Key /\ executions[k].status \in Terminal
    /\ executions[Key].status = "pending"

\* ======================================================================
\* The API handlers on a workflow and its rules
\* ======================================================================
\* Triggers a request may carry.
Cron12Trigger == Trigger(Some("cron"), Config(Some("0 12 * * ? *"), None, None))
ApiTriggers == {CronTrigger, Cron12Trigger, WebhookTrigger, PollTrigger}

InitApi ==
    /\ environ \in {Environment(arn, "") : arn \in PollerArns}
    /\ workflows = [w \in ApiWfIds |-> NoWorkflow]
    /\ created = 0
    /\ StarterInit
    /\ SchedulingInit
    /\ PollingInit
    /\ InterpolatingInit

\* Requests one at a time: creates, each under a new id and sent while no
\* workflow is stored; on the first workflow updates of the flag, the trigger
\* or both and the three senders of executions; on any workflow toggles and
\* deletes.  Any registry call may fail.
NoneStored == \A w \in DOMAIN workflows : workflows[w] = NoWorkflow
MaxQueue == 1
\* The "time" of a scheduled event: missing, that of the rule's firing a
\* minute before the handler runs, or the handler's own.
EventTimes(sender) == IF sender = "cron" THEN {None, Some(now - 60), Some(now)} ELSE {None}
NextApi ==
    \/ \E e \in BOOLEAN, t \in ApiTriggers : NoneStored /\ ApiCreate(1, e, t)
    \/ \E e \in {None, Some(TRUE), Some(FALSE)},
          t \in {None} \cup {Some(x) : x \in ApiTriggers} :
          (e # None \/ t # None) /\ ApiRead(1, "update", WorkflowId(1), e, t)
    \/ \E w \in ApiWfIds, e \in BOOLEAN : ApiRead(1, "toggle", w, Some(e), None)
    \/ \E w \in ApiWfIds : ApiRead(1, "delete", w, None, None)
    \/ ApiStore(1)
    \/ \E fail \in BOOLEAN : RegistryCall(1, fail)
    \/ ApiReturn(1)
    \/ \E sender \in {"manual", "cron", "webhook"} :
          \E time \in EventTimes(sender) :
             SendRead(1, sender, WorkflowId(1), time, MaxQueue)
    \/ \E send_ok \in BOOLEAN : SendMessage(1, send_ok)

SpecApi == InitApi /\ [][NextApi]_vars

\* A rule of the workflow that fires: present and ENABLED.
ActiveRule(name) == Exists(rules, name) /\ rules[name].State = "ENABLED"
ActiveRules(w) == {n \in {get_rule_name(w), get_poll_rule_name(w)} : ActiveRule(n)}

\* C34: a workflow's cron or poll rule is active only if the workflow's
\* enabled flag is true.
\* Violated: put_rule is always called with State="ENABLED" (eventbridge.py 71
\* and 235) whatever the workflow's flag, and update_workflow_handler writes
\* enabled without calling sync_workflow_enabled.
C34_ActiveOnlyIfEnabled ==
    \A w \in DOMAIN workflows :
        (ApiIdle /\ workflows[w] # NoWorkflow /\ ActiveRules(w) # {}) =>
            workflows[w].enabled = Some(TRUE)

\* A workflow stored disabled by its creation, with its cron rule ENABLED.
C34_CreatedDisabledActive ==
    /\ ApiIdle
    /\ workflows["w1"] = PollWorkflow(Some(FALSE), CronTrigger)
    /\ ActiveRules("w1") = {get_rule_name("w1")}
    /\ rules[get_rule_name("w1")].Targets # {}

\* --- a change detected and not enqueued -----------------------------------------
\* The poll fetched and parsed, found something to report, and queue_execution
\* raised.
C35_EnqueueFailed ==
    /\ Quiet
    /\ last_poll.n > 0
    /\ last_poll.status = "failed"
    /\ last_poll.error = Some("Unexpected error: send")

\* C35: when a poll detects a change and enqueueing fails, the stored
\* seen_item_ids and last_content_hash are those found at the start of the
\* poll, so that the next poll detects the change again.
\* Violated: handler calls update_poll_state(state_updates) (lines 586 and
\* 606) before queue_execution (594, 609); when queue_execution raises
\* the new identities and the new digest are stored already.
C35_ChangeKept ==
    C35_EnqueueFailed =>
        /\ SeenOf(poll_state[last_poll.w]) = SeenOf(last_poll.before)
        /\ HasDigest(poll_state[last_poll.w]) = HasDigest(last_poll.before)
        /\ DigestOf(poll_state[last_poll.w]) = DigestOf(last_poll.before)

\* The change is lost. Second poll of the feed with the single item g1: the
\* first poll's enqueue failed (one failure counted, its error stored, g1
\* stored), this one succeeded, found nothing new, and nothing was ever
\* enqueued.
C35_ChangeLost ==
    /\ Succeeded
    /\ PollsFeed(last_poll.w)
    /\ last_poll.n = 2
    /\ last_poll.status = "no_changes"
    /\ GuidsOf(last_poll.items) = << "g1" >>
    /\ SeenOf(last_poll.before) = << "g1" >>
    /\ Get(last_poll.before, "consecutive_failures", 0) = 1
    /\ Get(last_poll.before, "last_error", None) = Some("Unexpected error: send")
    /\ queue = <<>>

\* The same for a page: A stored, the report of B failed to be enqueued, B
\* fetched again gives no report.
C35_DigestLost ==
    /\ Succeeded
    /\ PollsHttp(last_poll.w)
    /\ last_poll.n = 3
    /\ last_poll.status = "no_changes"
    /\ last_poll.text = "B"
    /\ DigestOf(last_poll.before) = hash_content("B")
    /\ Get(last_poll.before, "last_error", None) = Some("Unexpected error: send")
    /\ queue = <<>>

\* ======================================================================
\* Overlapping invocations of the poller
\* ======================================================================
\* Two invocations for the feed workflow, their calls in any interleaving.
NextOverlap ==
    \/ \E p \in Procs : PollStart(p, "w1", MaxPolls)
    \/ \E p \in Procs : PollGetState(p)
    \/ \E p \in Procs, c \in {Content("B", << E1 >>, TRUE), Content("C", << E1, E2 >>, TRUE)} :
          PollFetch(p, Fetched(c))
    \/ \E p \in Procs : PollFetch(p, FetchRaised)
    \/ \E p \in Procs : PollUpdate(p)
    \/ \E p \in Procs : PollSend(p, TRUE)
    \/ \E p \in Procs : PollFailure(p)
    \/ \E p \in Procs : PollDisableWorkflow(p)
    \/ \E p \in Procs : PollDisableRule(p)
    \/ \E p \in Procs : PollNotify(p, TRUE)

SpecOverlap == InitPoll({FeedWorkflow}) /\ [][NextOverlap]_vars

\* The messages of the queue that report the item with identity g.
ReportsOf(g) ==
    {i \in 1 .. Len(queue) : g \in IdsIn(GuidsOf(queue[i].trigger_data.items))}

\* C36: whatever the overlap of the invocations, an item is reported in at
\* most one message, and after a failed invocation the stored
\* consecutive_failures counts every invocation that failed since the last
\* one that did not.
\* Violated: get_poll_state and update_item are separate calls with nothing
\* between them (no condition, no ADD): two invocations that read the same
\* item both report the new items and both write the same old + 1.
C36_NoLostUpdate ==
    /\ \A g \in {"g1", "g2"} : Cardinality(ReportsOf(g)) <= 1
    /\ (Quiet /\ last_poll.n > 0 /\ last_poll.status = "failed") =>
           Get(poll_state[last_poll.w], "consecutive_failures", 0) = last_poll.failed_run

\* Both invocations read the empty item, both reported g1.
C36_ReportedTwice ==
    /\ last_poll.n = 2
    /\ Len(queue) = 2
    /\ ReportsOf("g1") = {1, 2}
    /\ SeenOf(last_poll.before) = <<>>

\* Both invocations read the empty item, both failed: two failures, counter 1.
C36_FailureUncounted ==
    /\ last_poll.n = 2
    /\ last_poll.status = "failed"
    /\ last_poll.failed_run = 2
    /\ poll_state[last_poll.w].consecutive_failures = 1

\* No two invocations are between their read and their write at once.
C36_Serial == \A p, q \in Procs : (inflight[p].busy /\ inflight[q].busy) => p = q

\* --- auto-disable after a re-enable ---------------------------------------------
\* C37: every auto-disable takes four consecutive failed polls of its own, the
\* one after a re-enable too: after n invocations the workflow has been
\* auto-disabled at most n / 4 times.
\* Violated: toggle_workflow_enabled writes enabled and updated_at only
\* (api/handler.py 371-375) and leaves consecutive_failures at 4 in PollState;
\* the first failed poll after the re-enable computes 5 >= 4 and disables.
C37_FourFailuresEach ==
    Get(last_poll, "disabled", 0) * MAX_CONSECUTIVE_FAILURES <= last_poll.n

\* Five invocations in all: four failures and the auto-disable, the re-enable,
\* one more failure and the second auto-disable.
C37_DisabledAfterOne ==
    /\ last_poll.n = MAX_CONSECUTIVE_FAILURES + 1
    /\ last_poll.status = "failed"
    /\ last_poll.fired
    /\ FailuresOf(last_poll.before) = MAX_CONSECUTIVE_FAILURES
    /\ last_poll.disabled = 2
    /\ workflows[last_poll.w].enabled = Some(FALSE)
    /\ ~ActiveRule(get_poll_rule_name(last_poll.w))

\* Without a re-enable in between the statement holds: the first auto-disable
\* comes with the fourth failure.
C37_FirstDisable ==
    (Get(last_poll, "disabled", 0) = 1 /\ last_poll.fired) =>
        /\ last_poll.n >= MAX_CONSECUTIVE_FAILURES
        /\ FailuresOf(last_poll.before) = MAX_CONSECUTIVE_FAILURES - 1

\* --- identities of the preceding poll ------------------------------------------
\* C38: an identity among the items of one successful poll is not reported as
\* new by the next successful poll of the same workflow, whatever the feed size
\* up to MAX_FEED_ITEMS and whatever seen_item_ids held before: every identity
\* a successful feed poll took is in the seen_item_ids it stores (the cap of
\* MAX_SEEN_ITEMS keeps the tail, and a poll takes at most MAX_FEED_ITEMS), and
\* the new items of a successful poll that follows a successful poll share no
\* identity with the items of that poll.
C38_PolledAgain ==
    /\ last_poll'.n = last_poll.n + 1
    /\ last_poll'.status \in {"triggered", "no_changes"}
    /\ PollsFeed(last_poll'.w)

C38_Frame ==
    C38_PolledAgain =>
        /\ IdsIn(GuidsOf(last_poll'.items))
               \subseteq IdsIn(SeenOf(poll_state'[last_poll'.w]))
        /\ (SucceededLast /\ last_poll.w = last_poll'.w) =>
               IdsIn(GuidsOf(last_poll'.new_items))
                   \cap IdsIn(GuidsOf(last_poll.items)) = {}

C38_PrecedingNeverNew == [][C38_Frame]_vars

\* A full feed polled while seen_item_ids is at its cap and ends with the very
\* identities of the feed, stored by the poll before: nothing is new, and the
\* cap has dropped the oldest entries instead.
C38_Witness ==
    /\ Succeeded
    /\ last_poll.n >= 2
    /\ PollsFeed(last_poll.w)
    /\ Len(last_poll.items) = MAX_FEED_ITEMS
    /\ Len(SeenOf(last_poll.before)) = MAX_SEEN_ITEMS
    /\ SubSeq(SeenOf(last_poll.before), MAX_SEEN_ITEMS - MAX_FEED_ITEMS + 1,
              MAX_SEEN_ITEMS) = GuidsOf(last_poll.items)
    /\ last_poll.new_items = <<>>
    /\ SeenOf(poll_state[last_poll.w])[1] # SeenOf(last_poll.before)[1]

\* --- API handlers running at the same time ---------------------------------------
\* Two requests on one workflow, each handler at its own position: after
\* get_workflow, after its write to the table, and within the registry calls
\* of its reconciliation, which the registry serves one at a time in any
\* interleaving.  procs[p] carries, besides the reconciliation call, the
\* handler, the workflow as the handler read it and the trigger of the request.
\* A workflow is created, under a new id, while no request is running and
\* none is stored; then updates of its trigger and deletes run, two at a
\* time, the registry answering every call.
RequestTriggers == {CronTrigger, PollTrigger, WebhookTrigger}
NextApiConcurrent ==
    \/ \E t \in RequestTriggers : ApiIdle /\ NoneStored /\ ApiCreate(1, TRUE, t)
    \/ \E p \in Procs, w \in ApiWfIds, t \in RequestTriggers :
          ApiRead(p, "update", w, None, Some(t))
    \/ \E p \in Procs, w \in ApiWfIds : ApiRead(p, "delete", w, None, None)
    \/ \E p \in Procs : ApiStore(p)
    \/ \E p \in Procs : RegistryCall(p, FALSE)
    \/ \E p \in Procs : ApiReturn(p)

SpecApiConcurrent == InitApi /\ [][NextApiConcurrent]_vars

RulesOf(w) == {n \in {get_rule_name(w), get_poll_rule_name(w)} : Exists(rules, n)}

\* C39: once delete_workflow_handler has completed and no other API call on
\* the workflow is running, the registry holds no cron or poll rule of the
\* workflow, an update of the trigger running at the same time included.
\* Violated: the delete removes the rule of the kind of the trigger it read
\* (314-336) and nothing stops an update that passed update_workflow before the
\* delete from running sync_workflow_rule after it (270-275), which puts a rule
\* for a workflow that is gone.
C39_NoRuleAfterDelete ==
    \A w \in DOMAIN workflows : (ApiIdle /\ workflows[w] = NoWorkflow) => RulesOf(w) = {}

\* Reached: no request running, no workflow, and a rule of it in the registry,
\* enabled and with its target.
C39_OrphanRule ==
    /\ ApiIdle
    /\ workflows["w1"] = NoWorkflow
    /\ ActiveRule(get_rule_name("w1"))

\* Reached as well: the orphan is a poll rule, left by an update from a
\* webhook trigger, for which the delete had no rule to remove.
C39_OrphanPollRule ==
    /\ ApiIdle
    /\ workflows["w1"] = NoWorkflow
    /\ RulesOf("w1") = {get_poll_rule_name("w1")}

\* With one request at a time the statement holds.
C39_OneAtATime == \A p, q \in Procs : (StageOf(p) # "idle" /\ StageOf(q) # "idle") => p = q

\* --- a delete while the poller is running ---------------------------------------
\* Invocations of the poller for the feed workflow, each split at its reads,
\* and the delete of the workflow through the API at any point between them.
NextPollDelete ==
    \/ \E p \in Procs : PollStart(p, "w1", MaxPolls)
    \/ \E p \in Procs : PollGetState(p)
    \/ \E p \in Procs : PollFetch(p, Fetched(Content("B", << E1 >>, TRUE)))
    \/ \E p \in Procs : PollFetch(p, FetchRaised)
    \/ \E p \in Procs : PollUpdate(p)
    \/ \E p \in Procs : PollSend(p, TRUE)
    \/ \E p \in Procs : PollFailure(p)
    \/ \E p \in Procs : PollDisableWorkflow(p)
    \/ \E p \in Procs : PollDisableRule(p)
    \/ \E p \in Procs, post_ok \in BOOLEAN : PollNotify(p, post_ok)
    \/ ApiIdle /\ ApiRead(1, "delete", "w1", None, None)
    \/ ApiStore(1)
    \/ RegistryCall(1, FALSE)
    \/ ApiReturn(1)

SpecPollDelete == InitPoll({FeedWorkflow}) /\ [][NextPollDelete]_vars

\* C40: the poller's auto-disable never creates a workflow record: a workflow
\* id without a record in the workflows table has none after any step of the
\* poller either, the workflow being deleted between the poller's read of it
\* and its disable write included.
\* Violated: disable_workflow is an update_item without a ConditionExpression
\* (poller/handler.py 142-147), an upsert.
C40_Frame == \A w \in WfIds : workflows[w] = NoWorkflow => workflows'[w] = NoWorkflow
C40_NeverCreates == [][C40_Frame]_vars

\* Reached: the fourth failure in a row came after the delete, and the table
\* holds a record of the workflow made of the enabled flag alone, which no
\* API handler writes.
C40_RecordOfFlagAlone ==
    /\ last_poll.n > 0
    /\ last_poll.fired
    /\ workflows[last_poll.w] = [enabled |-> Some(FALSE)]
    /\ FailuresOf(poll_state[last_poll.w]) = MAX_CONSECUTIVE_FAILURES

\* While the workflow is stored the disable write changes its flag alone.
C40_FlagAloneOnStored ==
    \A w \in WfIds :
        (workflows[w] # NoWorkflow /\ "trigger" \in DOMAIN workflows[w]) =>
            Merge(workflows[w], [enabled |-> Some(TRUE)]) = FeedWorkflow
====
